---------------------------- MODULE Spec2Model ----------------------------
(***************************************************************************)
(* A model of the x86-64 back end of nanojit (src/nanojit/NativeX64.cpp).  *)
(*                                                                         *)
(* Machine words are kept at their true width.  A word is the sequence of  *)
(* its bytes, least significant first (its little-endian image in memory), *)
(* so a 32-bit value is a sequence of 4 bytes and a 64-bit value or an     *)
(* address a sequence of 8.  Arithmetic wraps at the width of its operands.*)
(*                                                                         *)
(* Two views of the assembler are modelled.                                *)
(*  - The selection view (SpecExec, SpecSelect, SpecTodo, SpecCmov,        *)
(*    SpecRemat, SpecPrologue): the code selector's output is kept as      *)
(*    mnemonic/operand records in the log and is run on a register file,   *)
(*    last emitted first.                                                  *)
(*  - The byte view (SpecBranch, SpecEmit, SpecPatch, SpecCursor,          *)
(*    SpecProtect, SpecSwap): the code buffer is a map from addresses to   *)
(*    bytes, written backwards through the cursor _nIns.                   *)
(***************************************************************************)
EXTENDS Integers, Sequences, FiniteSets, TLC

VARIABLES
    \* ---- the assembler
    _nIns,          \* code cursor (an address, 8 bytes)
    codeStart,      \* start of the current chunk
    codeEnd,        \* end of the current chunk
    mem,            \* code bytes: address -> byte, for the addresses written
    _err,           \* Assembler::_err: "None" or "BranchTooFar"
    force_long_branch, \* _config.force_long_branch
    nChunks,        \* chunks handed out by codeAlloc so far
    pool,           \* the chunks codeAlloc hands out, in order
    log,            \* the instructions emitted, in emission order
    assertFailed,   \* a NanoAssert has failed
    _blindMask32,   \* Assembler::_blindMask32 (4 bytes)
    _blindMask64,   \* Assembler::_blindMask64 (8 bytes)
    blindSet,       \* the values the policy shouldBlind selects
    _nExitIns,      \* cursor of the exit stream, NULL before it has a chunk
    exitStart,      \* start of the exit stream's chunk
    exitEnd,        \* end of the exit stream's chunk
    _epilogue,      \* Assembler::_epilogue: the shared epilogue, NULL before it exists
    maxStkUsed,     \* Assembler::max_stk_used: most stack bytes a call needed
    \* ---- the environment
    last,           \* the last routine called, its arguments and its result
    regs,           \* register file while the emitted code runs
    regs0,          \* register file before the emitted code runs
    xi              \* steps taken after assembly: emitted instructions
                    \* executed (SpecExec), nPatchBranch calls (SpecPatch),
                    \* swapCodeChunks calls (SpecSwap)

vars == << _nIns, codeStart, codeEnd, mem, _err, force_long_branch, nChunks,
           pool, log, assertFailed, _blindMask32, _blindMask64, blindSet,
           _nExitIns, exitStart, exitEnd, _epilogue, maxStkUsed, last,
           regs, regs0, xi >>

asmVars  == << _nIns, codeStart, codeEnd, mem, _err, nChunks, log,
               assertFailed >>
confVars == << force_long_branch, pool, _blindMask32, _blindMask64, blindSet >>
exitVars == << _nExitIns, exitStart, exitEnd, _epilogue, maxStkUsed >>
execVars == << regs, regs0, xi >>

---------------------------------------------------------------------------
(* Words                                                                   *)

\* n as a word of len bytes (0 <= n < 2^31).
RECURSIVE W(_, _)
W(n, len) == IF len = 0 THEN <<>> ELSE <<n % 256>> \o W(n \div 256, len - 1)

\* The function f on 1..n as a tuple.
Bytes(f) == f \o <<>>

Zero(len) == Bytes([i \in 1..len |-> 0])

\* Bitwise operations on naturals below 2^n.
RECURSIVE BitAnd(_, _, _)
BitAnd(a, b, n) ==
    IF n = 0 \/ a = 0 \/ b = 0 THEN 0
    ELSE ((a % 2) * (b % 2)) + 2 * BitAnd(a \div 2, b \div 2, n - 1)

RECURSIVE BitXor(_, _, _)
BitXor(a, b, n) ==
    IF n = 0 THEN 0
    ELSE IF a = 0 THEN b
    ELSE IF b = 0 THEN a
    ELSE (((a % 2) + (b % 2)) % 2) + 2 * BitXor(a \div 2, b \div 2, n - 1)

WAnd(a, b) == Bytes([i \in 1..Len(a) |-> BitAnd(a[i], b[i], 8)])
WXor(a, b) == Bytes([i \in 1..Len(a) |-> BitXor(a[i], b[i], 8)])
WNot(a)    == Bytes([i \in 1..Len(a) |-> 255 - a[i]])
WOr(a, b)  == Bytes([i \in 1..Len(a) |-> a[i] + b[i] - BitAnd(a[i], b[i], 8)])

\* a + b + c modulo 2^(8 * Len(a)), the carry c rippling from the low byte.
RECURSIVE WAddC(_, _, _)
WAddC(a, b, c) ==
    IF a = <<>> THEN <<>>
    ELSE <<(a[1] + b[1] + c) % 256>>
         \o WAddC(Tail(a), Tail(b), (a[1] + b[1] + c) \div 256)

\* a + b, -a and a - b in two's complement.
WAdd(a, b) == WAddC(a, b, 0)
WNeg(a)    == WAddC(WNot(a), Zero(Len(a)), 1)
WSub(a, b) == WAddC(a, WNot(b), 1)

\* Conversions between widths: (int32_t)x, (int64_t)(int32_t)x, (uint64_t)(uint32_t)x.
Trunc(a, len)   == SubSeq(a, 1, len)
SignExt(a, len) ==
    a \o Bytes([i \in 1..(len - Len(a)) |-> IF a[Len(a)] >= 128 THEN 255 ELSE 0])
ZeroExt(a, len) == a \o Zero(len - Len(a))

\* isS8, isS32, isU32 of nanojit: the value survives the narrowing.
isS8(x)  == SignExt(Trunc(x, 1), Len(x)) = x
isS32(x) == SignExt(Trunc(x, 4), Len(x)) = x
isU32(x) == ZeroExt(Trunc(x, 4), Len(x)) = x

\* Unsigned order on words of equal width: a < b.
RECURSIVE ULess(_, _, _)
ULess(a, b, i) ==
    IF i = 0 THEN FALSE
    ELSE IF a[i] # b[i] THEN a[i] < b[i] ELSE ULess(a, b, i - 1)
WLessU(a, b) == ULess(a, b, Len(a))

---------------------------------------------------------------------------
(* Selection view: instructions and their execution                        *)

Regs == {"RAX", "RCX", "RDX"}

\* One emitted native instruction: mnemonic, destination, source register,
\* immediate field, and for a RIP-relative operand the address of the next
\* instruction.
Ins(mn, r, b, imm, rip) == [mn |-> mn, r |-> r, b |-> b, imm |-> imm, rip |-> rip]

MOVI(r, i32)    == Ins("MOVI",    r, "none", i32, <<>>)
MOVQI32(r, i32) == Ins("MOVQI32", r, "none", i32, <<>>)
MOVQI(r, u64)   == Ins("MOVQI",   r, "none", u64, <<>>)
XORRR(l, r)     == Ins("XORRR",   l, r, <<>>, <<>>)
XORQRR(l, r)    == Ins("XORQRR",  l, r, <<>>, <<>>)
MR(d, s)        == Ins("MOVQR",   d, s, <<>>, <<>>)
LEARIP(r, d, rip) == Ins("LEARIP", r, "none", d, rip)

\* The 32-bit forms write the zero-extended 32-bit result; the 64-bit forms
\* sign-extend their 32-bit immediate.
Lo32(x) == Trunc(x, 4)
Exec(i, R) ==
    LET r  == i.r
        a  == R[r]
        v  ==
          CASE i.mn = "ADDLRI"  -> ZeroExt(WAdd(Lo32(a), i.imm), 8)
            [] i.mn = "SUBLRI"  -> ZeroExt(WSub(Lo32(a), i.imm), 8)
            [] i.mn = "ANDLRI"  -> ZeroExt(WAnd(Lo32(a), i.imm), 8)
            [] i.mn = "ORLRI"   -> ZeroExt(WOr(Lo32(a), i.imm), 8)
            [] i.mn = "XORLRI"  -> ZeroExt(WXor(Lo32(a), i.imm), 8)
            [] i.mn = "ADDQRI"  -> WAdd(a, SignExt(i.imm, 8))
            [] i.mn = "SUBQRI"  -> WSub(a, SignExt(i.imm, 8))
            [] i.mn = "SUBQR8"  -> WSub(a, SignExt(i.imm, 8))
            [] i.mn = "ANDQRI"  -> WAnd(a, SignExt(i.imm, 8))
            [] i.mn = "ORQRI"   -> WOr(a, SignExt(i.imm, 8))
            [] i.mn = "XORQRI"  -> WXor(a, SignExt(i.imm, 8))
            [] i.mn = "MOVI"    -> ZeroExt(i.imm, 8)
            [] i.mn = "MOVQI32" -> SignExt(i.imm, 8)
            [] i.mn = "MOVQI"   -> i.imm
            [] i.mn = "XORRR"   -> ZeroExt(WXor(Lo32(a), Lo32(R[i.b])), 8)
            [] i.mn = "XORQRR"  -> WXor(a, R[i.b])
            [] i.mn = "MOVQR"   -> R[i.b]
            [] i.mn = "LEARIP"  -> WAdd(i.rip, SignExt(i.imm, 8))
            [] OTHER            -> a
    IN [R EXCEPT ![r] = v]


---------------------------------------------------------------------------
(* Byte view: the assembler state and the code buffer                      *)

NULL == Zero(8)

\* p + n and p - n for an address p and a small natural n.
PAdd(p, n) == WAdd(p, W(n, 8))
PSub(p, n) == WSub(p, W(n, 8))

\* The assembler state the emit routines read and write, as one record:
\* nIns, start, end (cursor and chunk), mem, err, nChunks, pool (the chunks
\* codeAlloc will hand out), flb (force_long_branch), log (the asm_output
\* records, in emission order) and assert (an assertion has failed).
AsmState(n, s, e, m, er, k, pl, f, lg, as) ==
    [nIns |-> n, start |-> s, end |-> e, mem |-> m, err |-> er, nChunks |-> k,
     pool |-> pl, flb |-> f, log |-> lg, assert |-> as]

\* m with bytes written at addr, addr+1, ...
RECURSIVE Store(_, _, _)
Store(m, addr, bytes) ==
    IF bytes = <<>> THEN m
    ELSE Store((addr :> bytes[1]) @@ m, PAdd(addr, 1), Tail(bytes))

\* The byte at addr + i; -1 when nothing was written there.
Load(m, addr, i) ==
    LET x == PAdd(addr, i) IN IF x \in DOMAIN m THEN m[x] ELSE -1

setError(a, e) == [a EXCEPT !.err = e]

NanoAssert(a, cond) == IF cond THEN a ELSE [a EXCEPT !.assert = TRUE]

\* v handed to F as a value: F's result for the value of v.
Then(v, F(_)) == CHOOSE r \in {F(x) : x \in {v}} : TRUE

\* One record of the assembly log, with the target handed to the routine
\* and the address of the instruction's first byte.
asm_output(a, mn, imm, rip, t) ==
    Then(a, LAMBDA x :
        [x EXCEPT !.log = Append(@,
            [mn |-> mn, r |-> "none", b |-> "none", imm |-> imm, rip |-> rip,
             t |-> t, at |-> x.nIns])])

\* A log-only instruction of the selection view (its encoding is not modelled).
asm_ins(a, i) ==
    [a EXCEPT !.log = Append(@,
        [mn |-> i.mn, r |-> i.r, b |-> i.b, imm |-> i.imm, rip |-> i.rip,
         t |-> <<>>, at |-> <<>>])]

\* codeAlloc hands out the next chunk of the pool and puts the cursor at
\* its end.
ChunkSize == 64
codeAlloc(a) ==
    Then(a, LAMBDA x :
      Then(x.pool[x.nChunks + 1], LAMBDA c :
        [x EXCEPT !.start = c, !.end = PAdd(c, ChunkSize),
                  !.nIns = PAdd(c, ChunkSize), !.nChunks = @ + 1]))

oplen(op) == op[1]

RECURSIVE underrunProtect(_, _)

emit_up(a, op) ==
    Then(underrunProtect(a, 8), LAMBDA a1 :
      Then(op, LAMBDA w :
        [a1 EXCEPT !.mem = Store(@, PSub(a1.nIns, 8), w),
                   !.nIns = PAdd(@, oplen(w))]))
emit_after_move(a, op) ==
    Then(underrunProtect(a, 8), LAMBDA a1 :
      Then(op, LAMBDA w :
        [a1 EXCEPT !.mem = Store(@, PSub(a1.nIns, oplen(w)), w),
                   !.nIns = PSub(@, oplen(w))]))
emit(a, op) ==
    Then(underrunProtect(a, 8), LAMBDA a1 :
      Then(op, LAMBDA w :
        [a1 EXCEPT !.mem = Store(@, PSub(a1.nIns, 8), w),
                   !.nIns = PSub(@, oplen(w))]))

emit_target8(a, underrun, op, mn, target) ==
    Then(underrunProtect(a, underrun), LAMBDA a1 :
      Then(WSub(target, a1.nIns), LAMBDA offset :
        asm_output(emit(NanoAssert(a1, isS8(offset)),
                        WOr(op, Zero(7) \o Trunc(offset, 1))),
                   mn, Trunc(offset, 1), a1.nIns, target)))

emit_target32_stop(a, underrun, op, mn, target) ==
    Then(underrunProtect(a, underrun), LAMBDA a1 :
      Then(IF target # NULL THEN WSub(target, a1.nIns) ELSE Zero(8),
           LAMBDA offset :
        IF ~isS32(offset) THEN setError(a1, "BranchTooFar")
        ELSE asm_output(emit(a1, WOr(op, Zero(4) \o Trunc(offset, 4))),
                        mn, Trunc(offset, 4), a1.nIns, target)))
emit_target32(a, underrun, op, mn, target) ==
    Then(underrunProtect(a, underrun), LAMBDA a1 :
      Then(IF target # NULL THEN WSub(target, a1.nIns) ELSE Zero(8),
           LAMBDA offset :
        asm_output(emit(IF ~isS32(offset) THEN setError(a1, "BranchTooFar")
                        ELSE a1,
                        WOr(op, Zero(4) \o Trunc(offset, 4))),
                   mn, Trunc(offset, 4), a1.nIns, target)))

emit_target64(a, underrun, op, mn, target) ==
    Then(underrunProtect(NanoAssert(a, underrun >= 16), underrun), LAMBDA a1 :
      asm_output(emit([a1 EXCEPT !.mem = Store(@, PSub(a1.nIns, 8), target),
                                 !.nIns = PSub(@, 8)],
                      op),
                 mn, target, a1.nIns, target))

\* Opcode templates: length in the low byte, the instruction in the top
\* bytes, as the 8 bytes emit() writes.
X64_jmp8    == <<2, 0, 0, 0, 0, 0, 235, 0>>       \* EB rel8
X64_jmp     == <<5, 0, 0, 233, 0, 0, 0, 0>>       \* E9 rel32
X64_jmpi    == <<6, 0, 255, 37, 0, 0, 0, 0>>      \* FF 25 00000000
X64_call    == <<5, 0, 0, 232, 0, 0, 0, 0>>       \* E8 rel32
X64_callrax == <<2, 0, 0, 0, 0, 0, 255, 208>>     \* FF D0
X64_jneg    == <<0, 0, 0, 1, 0, 0, 0, 0>>
X64_jneg8   == <<0, 0, 0, 0, 0, 0, 1, 0>>

\* The x86 condition number of the positive conditional jumps.
ccOf(c) ==
    CASE c = "O" -> 0 [] c = "B" -> 2 [] c = "AE" -> 3 [] c = "E" -> 4
      [] c = "BE" -> 6 [] c = "A" -> 7 [] c = "P" -> 10 [] c = "L" -> 12
      [] c = "GE" -> 13 [] c = "LE" -> 14 [] c = "G" -> 15

X64_jcc(c)  == <<6, 0, 15, 128 + ccOf(c), 0, 0, 0, 0>>   \* 0F 8x rel32
X64_jcc8(c) == <<2, 0, 0, 0, 0, 0, 112 + ccOf(c), 0>>    \* 7x rel8

JMP8(a, n, t)  == emit_target8(a, n, X64_jmp8, "JMP8", t)
JMP32(a, n, t) == emit_target32(a, n, X64_jmp, "JMP32", t)
JMP64(a, n, t) == emit_target64(a, n, X64_jmpi, "JMP64", t)
CALL(a, n, t)  == emit_target32(a, n, X64_call, "CALL", t)
CALLRAX(a)     ==
    Then(underrunProtect(a, 8), LAMBDA a1 :
      asm_output(emit(a1, X64_callrax), "CALLRAX", <<>>, a1.nIns, <<>>))

\* JO, JE, JL, ... (c positive) and JNO, JNE, JNL, ... (neg), 32-bit form.
J(a, n, c, neg, t) ==
    emit_target32(a, n,
        IF neg THEN WXor(X64_jcc(c), X64_jneg) ELSE X64_jcc(c),
        (IF neg THEN "JN" ELSE "J") \o c, t)

\* JO8, JE8, ... and JNO8, JNE8, ..., 8-bit form.
J8(a, n, c, neg, t) ==
    emit_target8(a, n,
        IF neg THEN WXor(X64_jcc8(c), X64_jneg8) ELSE X64_jcc8(c),
        (IF neg THEN "JN" ELSE "J") \o c \o "8", t)

isTargetWithinS8_s32(a, target) ==
    Then(underrunProtect(NanoAssert(a, target # NULL), 8), LAMBDA a1 :
      [a |-> a1,
       ok |-> IF a1.flb THEN FALSE ELSE isS32(WSub(target, a1.nIns))])
isTargetWithinS8_noFlag(a, target) ==
    Then(underrunProtect(NanoAssert(a, target # NULL), 8), LAMBDA a1 :
      [a |-> a1, ok |-> isS8(WSub(target, a1.nIns))])
isTargetWithinS8(a, target) ==
    Then(underrunProtect(NanoAssert(a, target # NULL), 8), LAMBDA a1 :
      [a |-> a1,
       ok |-> IF a1.flb THEN FALSE ELSE isS8(WSub(target, a1.nIns))])

isTargetWithinS32(a, target, maxInstSize) ==
    Then(underrunProtect(NanoAssert(a, target # NULL), maxInstSize), LAMBDA a1 :
      [a |-> a1,
       ok |-> IF a1.flb THEN FALSE ELSE isS32(WSub(target, a1.nIns))])

JMPl_short(a, target) ==
    IF target = NULL THEN JMP64(a, 16, target)
    ELSE Then(isTargetWithinS8(a, target), LAMBDA w :
           IF w.ok THEN JMP8(w.a, 8, target) ELSE JMP64(w.a, 16, target))
JMPl(a, target) ==
    IF target = NULL THEN JMP64(a, 16, target)
    ELSE Then(isTargetWithinS32(a, target, 8), LAMBDA w :
           IF w.ok THEN JMP32(w.a, 8, target) ELSE JMP64(w.a, 16, target))

JMP(a, target) ==
    IF target = NULL THEN JMP64(a, 16, target)
    ELSE Then(isTargetWithinS8(a, target), LAMBDA w8 :
           IF w8.ok THEN JMP8(w8.a, 8, target)
           ELSE Then(isTargetWithinS32(w8.a, target, 8), LAMBDA w32 :
                  IF w32.ok THEN JMP32(w32.a, 8, target)
                  ELSE JMP64(w32.a, 16, target)))

underrunProtect_noBytes(a, bytes) ==
    Then(a, LAMBDA x :
      IF WLessU(x.nIns, x.start)
      THEN JMP(codeAlloc(asm_output(x, "newpage", <<>>, <<>>, x.nIns)), x.nIns)
      ELSE x)
\* The non-PEDANTIC build: a chunk break when fewer than `bytes` bytes remain.
underrunProtect(a, bytes) ==
    Then(a, LAMBDA x :
      IF WLessU(PSub(x.nIns, bytes), x.start)
      THEN JMP(codeAlloc(asm_output(x, "newpage", <<>>, <<>>, x.nIns)), x.nIns)
      ELSE x)

\* Multi-part emitters: the immediate and the displacement are written
\* apart from the opcode word.  Registers are their numbers 0..15.

\* [rex][opcode][mod-rr]: r and b into the modrm byte.
mod_rr(op, r, b) ==
    WOr(op, Zero(7) \o <<(r % 8) * 8 + (b % 8)>>)

\* The 2-register rex prefix, dropped (the length one less) when none of
\* its bits is set.
rexrb(a, op, r, b) ==
    LET at  == 9 - oplen(op)
        rex == WOr(<<op[at]>>, <<(r \div 8) * 4 + (b \div 8)>>)[1]
    IN [a  |-> NanoAssert(a, op[at] \in {64, 72}),
        op |-> IF rex # 64 THEN [op EXCEPT ![at] = rex]
               ELSE [op EXCEPT ![1] = @ - 1]]

emitrr(a, op, r, b) ==
    Then(rexrb(a, mod_rr(op, r, b), r, b), LAMBDA x : emit(x.a, x.op))

\* The displacement d (4 bytes) written below the cursor, as one byte when
\* it fits; the result is the assembler and the opcode word to use.
emit_disp32(a, op, d) ==
    IF isS8(d)
    THEN Then(underrunProtect(NanoAssert(a, BitAnd(op[8], 192, 8) = 128),
                              1 + 8), LAMBDA a1 :
           [a  |-> [a1 EXCEPT !.mem = Store(@, PSub(a1.nIns, 1), Trunc(d, 1)),
                              !.nIns = PSub(@, 1)],
            op |-> WXor(op, Zero(7) \o <<192>>)])
    ELSE Then(underrunProtect(a, 4 + 8), LAMBDA a1 :
           [a  |-> [a1 EXCEPT !.mem = Store(@, PSub(a1.nIns, 4), d),
                              !.nIns = PSub(@, 4)],
            op |-> op])

emitrm_wide(a, op, r, d, b) ==
    Then(emit_disp32(a, op, d), LAMBDA x : emitrr(x.a, x.op, r, b))

emitrm_imm32_protect8(a, op, b, d, imm) ==
    Then(underrunProtect(NanoAssert(a, b % 8 # 4), 8), LAMBDA a1 :
      emitrm_wide([a1 EXCEPT !.mem = Store(@, PSub(a1.nIns, 4), imm),
                             !.nIns = PSub(@, 4)],
                  op, 0, d, b))
emitrm_imm32(a, op, b, d, imm) ==
    Then(underrunProtect(NanoAssert(a, b % 8 # 4), 4 + 4 + 8), LAMBDA a1 :
      emitrm_wide([a1 EXCEPT !.mem = Store(@, PSub(a1.nIns, 4), imm),
                             !.nIns = PSub(@, 4)],
                  op, 0, d, b))

\* movl d(b), imm32: 40 C7 80, the displacement and the immediate apart.
X64_movlmi == <<3, 0, 0, 0, 0, 64, 199, 128>>
\* The log record keeps the base register in b and the displacement in t.
MOVLMI(a, b, d, imm) ==
    Then(asm_output(emitrm_imm32(a, X64_movlmi, b, d, imm),
                    "MOVLMI", imm, <<>>, d), LAMBDA x :
      [x EXCEPT !.log[Len(x.log)].b = b])

---------------------------------------------------------------------------
(* The assembler state as variables                                        *)

TheAsm ==
    AsmState(_nIns, codeStart, codeEnd, mem, _err, nChunks, pool,
             force_long_branch, log, assertFailed)

SetAsm(a) ==
    /\ _nIns' = a.nIns
    /\ codeStart' = a.start
    /\ codeEnd' = a.end
    /\ mem' = a.mem
    /\ _err' = a.err
    /\ nChunks' = a.nChunks
    /\ log' = a.log
    /\ assertFailed' = a.assert

\* The chunks of the code allocator.  Three layouts: each new chunk just
\* below the previous one, 64K above it, or 4G above it.
MaxChunks == 3
ChunkBase == <<0, 16, 0, 0, 1, 0, 0, 0>>
Pool(layout) ==
    [i \in 1..MaxChunks |->
        CASE layout = "near" -> PSub(ChunkBase, ChunkSize * (i - 1))
          [] layout = "mid"  -> PAdd(ChunkBase, 65536 * (i - 1))
          [] layout = "far"  -> [ChunkBase EXCEPT ![5] = i]]

\* The assembler after construction and the first codeAlloc, with `used`
\* bytes of the first chunk already taken.
InitAsm(layout, used, flb) ==
    /\ pool = Pool(layout)
    /\ codeStart = pool[1]
    /\ codeEnd = PAdd(pool[1], ChunkSize)
    /\ _nIns = PAdd(pool[1], ChunkSize - used)
    /\ mem = << >>
    /\ _err = "None"
    /\ force_long_branch = flb
    /\ nChunks = 1
    /\ log = << >>
    /\ assertFailed = FALSE
    /\ _nExitIns = NULL
    /\ exitStart = NULL
    /\ exitEnd = NULL
    /\ _epilogue = NULL
    /\ maxStkUsed = 0
    /\ last = [fn |-> "init"]

---------------------------------------------------------------------------
(* Constant blinding of arithmetic immediates                              *)

Ops32 == {"addi", "subi", "andi", "ori", "xori"}
Ops64 == {"addq", "subq", "andq", "orq", "xorq"}

\* The LIR meaning of the operation on operands of equal width.
ArithOp(op, x, y) ==
    CASE op \in {"addi", "addq"} -> WAdd(x, y)
      [] op \in {"subi", "subq"} -> WSub(x, y)
      [] op \in {"andi", "andq"} -> WAnd(x, y)
      [] op \in {"ori", "orq"}   -> WOr(x, y)
      [] op \in {"xori", "xorq"} -> WXor(x, y)

\* The immediate fields of the two instructions, first emitted first.
blindFields_noComplement(op, imm, m) ==
    CASE op \in {"addi", "addq", "subi", "subq"} -> <<m, WSub(imm, m)>>
      [] op \in {"andi", "andq"} -> <<WAnd(imm, m), WOr(WAnd(imm, WNot(m)), m)>>
      [] op \in {"ori", "orq"}   -> <<WAnd(imm, m), WAnd(imm, m)>>
      [] op \in {"xori", "xorq"} -> <<m, WXor(imm, WNot(m))>>
blindFields(op, imm, m) ==
    CASE op \in {"addi", "addq", "subi", "subq"} -> <<m, WSub(imm, m)>>
      [] op \in {"andi", "andq"} ->
            <<WOr(WAnd(imm, m), WNot(m)), WOr(WAnd(imm, WNot(m)), m)>>
      [] op \in {"ori", "orq"}   -> <<WAnd(imm, m), WAnd(imm, WNot(m))>>
      [] op \in {"xori", "xorq"} -> <<m, WXor(imm, m)>>

\* The mnemonic stem of the opcode: ADDLRI, ADDLR8, ADDQRI, ADDQR8, ...
ArithMn(op) ==
    CASE op = "addi" -> "ADDL" [] op = "addq" -> "ADDQ"
      [] op = "subi" -> "SUBL" [] op = "subq" -> "SUBQ"
      [] op = "andi" -> "ANDL" [] op = "andq" -> "ANDQ"
      [] op = "ori"  -> "ORL"  [] op = "orq"  -> "ORQ"
      [] op = "xori" -> "XORL" [] op = "xorq" -> "XORQ"

ArithRI(op, r, i32) == Ins(ArithMn(op) \o "RI", r, "none", i32, <<>>)

\* rr and ra are the registers beginOp1Regs hands back.
asm_arith_imm_blind(a, op, imm, rr, ra) ==
    IF op \notin Ops32 \cup Ops64 THEN [a |-> a, ret |-> FALSE]
    ELSE
      LET a0 == NanoAssert(a, ~isS8(imm))
          f  == blindFields(op, imm, _blindMask32)
          a1 == asm_ins(a0, ArithRI(op, rr, f[1]))
          a2 == asm_ins(a1, ArithRI(op, rr, f[2]))
          a3 == IF rr # ra THEN asm_ins(a2, MR(rr, ra)) ELSE a2
      IN [a |-> a3, ret |-> TRUE]

---------------------------------------------------------------------------
(* Materialising immediates                                                *)

\* The hardening policy: the constants worth blinding.
shouldBlind(v) == (IF Len(v) = 4 THEN SignExt(v, 8) ELSE v) \in blindSet

asm_immi_xorZero(a, r, v, canClobberCCs, blind) ==
    IF v = Zero(4) THEN asm_ins(a, XORRR(r, r))
    ELSE IF blind /\ shouldBlind(v)
    THEN LET a0 == NanoAssert(a, canClobberCCs)
             a1 == asm_ins(a0, ArithRI("xori", r, _blindMask32))
         IN asm_ins(a1, MOVI(r, WXor(v, _blindMask32)))
    ELSE asm_ins(a, MOVI(r, v))

asm_immi(a, r, v, canClobberCCs, blind) ==
    IF v = Zero(4) /\ canClobberCCs THEN asm_ins(a, XORRR(r, r))
    ELSE IF blind /\ shouldBlind(v)
    THEN LET a0 == NanoAssert(a, canClobberCCs)
             a1 == asm_ins(a0, ArithRI("xori", r, _blindMask32))
         IN asm_ins(a1, MOVI(r, WXor(v, _blindMask32)))
    ELSE asm_ins(a, MOVI(r, v))

\* The registers allocTempReg(GpRegs & ~rmask(r)) may hand back.
TempRegs_any(r) == Regs
TempRegs(r) == Regs \ {r}

\* t is the register allocTempReg hands back where one is asked for.
asm_immq(a, r, v, canClobberCCs, blind, t) ==
    IF isU32(v) THEN asm_immi(a, r, Trunc(v, 4), canClobberCCs, blind)
    ELSE IF isS32(v)
    THEN IF blind /\ shouldBlind(Trunc(v, 4))
         THEN LET a0 == NanoAssert(a, canClobberCCs)
                  a1 == asm_ins(a0, XORQRR(r, t))
                  a2 == asm_ins(a1, MOVQI32(t, _blindMask32))
              IN asm_ins(a2, MOVQI32(r, WXor(Trunc(v, 4), _blindMask32)))
         ELSE asm_ins(a, MOVQI32(r, Trunc(v, 4)))
    ELSE Then(isTargetWithinS32(a, v, 8), LAMBDA w :
           IF w.ok /\ ~(blind /\ shouldBlind(v))
           THEN LET d == Trunc(WSub(v, w.a.nIns), 4)
                IN asm_ins(w.a, LEARIP(r, d, w.a.nIns))
           ELSE IF blind /\ shouldBlind(v)
           THEN LET a0 == NanoAssert(w.a, canClobberCCs)
                    a1 == asm_ins(a0, XORQRR(r, t))
                    a2 == asm_ins(a1, MOVQI(t, _blindMask64))
                IN asm_ins(a2, MOVQI(r, WXor(v, _blindMask64)))
           ELSE asm_ins(w.a, MOVQI(r, v)))

---------------------------------------------------------------------------
(* SpecExec: one selector call, then the emitted code runs                 *)

Imm32s ==
    { <<0, 1, 0, 0>>, <<255, 255, 255, 127>>, <<0, 0, 0, 128>>,
      <<128, 0, 0, 0>>, <<127, 255, 255, 255>>, <<68, 51, 34, 17>>,
      <<5, 0, 0, 0>> }

Mask32s ==
    { <<0, 0, 0, 0>>, <<255, 255, 255, 255>>, <<1, 0, 0, 0>>,
      <<239, 190, 173, 222>>, <<0, 0, 0, 128>> }

Mask64s ==
    { <<0, 0, 0, 0, 0, 0, 0, 0>>, <<239, 190, 173, 222, 13, 240, 173, 186>> }

RegFiles ==
    { [r \in Regs |-> CASE r = "RAX" -> <<1, 0, 0, 0, 0, 0, 0, 0>>
                        [] r = "RCX" -> <<255, 255, 255, 255, 255, 255, 255, 255>>
                        [] r = "RDX" -> <<120, 86, 52, 18, 240, 222, 188, 154>>],
      [r \in Regs |-> CASE r = "RAX" -> <<255, 255, 255, 127, 0, 0, 0, 0>>
                        [] r = "RCX" -> <<0, 0, 0, 0, 0, 0, 0, 0>>
                        [] r = "RDX" -> <<0, 0, 0, 128, 255, 255, 255, 255>>] }

\* 64-bit immediates: 32-bit unsigned, 32-bit signed, addresses within and
\* just beyond 2G of the code, and wide values.
Imm64s ==
    { Zero(8), <<1, 0, 0, 0, 0, 0, 0, 0>>, <<255, 255, 255, 255, 0, 0, 0, 0>>,
      <<0, 0, 0, 128, 0, 0, 0, 0>>,
      <<255, 255, 255, 255, 255, 255, 255, 255>>,
      <<0, 0, 0, 128, 255, 255, 255, 255>>,
      <<0, 0, 0, 0, 1, 0, 0, 0>>,
      WAdd(PAdd(ChunkBase, ChunkSize), <<255, 255, 255, 127, 0, 0, 0, 0>>),
      WAdd(PAdd(ChunkBase, ChunkSize), <<0, 0, 0, 128, 0, 0, 0, 0>>),
      <<239, 205, 171, 137, 103, 69, 35, 1>>,
      <<0, 0, 0, 0, 0, 0, 0, 128>> }

\* The policy selects nothing, or every immediate.
BlindSets ==
    { {},
      {SignExt(k, 8) : k \in Imm32s} \cup {ZeroExt(k, 8) : k \in Imm32s}
        \cup Imm64s \cup {SignExt(Trunc(v, 4), 8) : v \in Imm64s} }

InitExec ==
    /\ \E flb \in BOOLEAN : InitAsm("mid", 0, flb)
    /\ _blindMask32 \in Mask32s
    /\ _blindMask64 \in Mask64s
    /\ blindSet \in BlindSets
    /\ regs0 \in RegFiles
    /\ regs = regs0
    /\ xi = 0

AsmArithImmBlind ==
    /\ last.fn = "init"
    /\ \E op \in Ops32 \cup Ops64, imm \in Imm32s, rr \in Regs, ra \in Regs :
         LET res == asm_arith_imm_blind(TheAsm, op, imm, rr, ra)
         IN /\ SetAsm(res.a)
            /\ last' = [fn |-> "asm_arith_imm_blind", op |-> op, imm |-> imm,
                        rr |-> rr, ra |-> ra, ret |-> res.ret]
    /\ UNCHANGED << confVars, exitVars, execVars >>

AsmImmq ==
    /\ last.fn = "init"
    /\ \E r \in Regs, v \in Imm64s, canClobberCCs \in BOOLEAN, blind \in BOOLEAN :
         \E t \in TempRegs(r) :
            /\ SetAsm(asm_immq(TheAsm, r, v, canClobberCCs, blind, t))
            /\ last' = [fn |-> "asm_immq", r |-> r, v |-> v, blind |-> blind,
                        canClobberCCs |-> canClobberCCs, t |-> t]
    /\ UNCHANGED << confVars, exitVars, execVars >>

\* The processor runs the next instruction: the code runs from the lowest
\* address, that is, from the last instruction emitted.
ExecStep ==
    /\ last.fn # "init"
    /\ xi < Len(log)
    /\ regs' = Exec(log[Len(log) - xi], regs)
    /\ xi' = xi + 1
    /\ UNCHANGED << asmVars, confVars, exitVars, last, regs0 >>

Ran == last.fn # "init" /\ xi = Len(log)

NextExec == AsmArithImmBlind \/ AsmImmq \/ ExecStep

SpecExec == InitExec /\ [][NextExec]_vars

\* C1: for addi, subi, andi, ori and xori with an immediate k that does not
\* fit a signed byte, running the two instructions asm_arith_imm_blind emits
\* leaves op(initial, k) modulo 2^32 in the result register, for every mask.
C1_Blind32Result ==
    (/\ Ran
     /\ last.fn = "asm_arith_imm_blind"
     /\ last.op \in Ops32
     /\ ~isS8(last.imm))
    => Lo32(regs[last.rr]) = ArithOp(last.op, Lo32(regs0[last.ra]), last.imm)

C1_Witness ==
    /\ Ran
    /\ last.fn = "asm_arith_imm_blind"
    /\ last.op = "andi"
    /\ last.imm = <<68, 51, 34, 17>>
    /\ _blindMask32 = <<239, 190, 173, 222>>
    /\ last.rr # last.ra
    /\ Len(log) = 3

\* C2: for addq, subq, andq, orq and xorq the register ends as
\* op(initial, sign-extend(k)) modulo 2^64, also when k - mask overflows
\* 32 bits.
C2_Blind64Result ==
    (/\ Ran
     /\ last.fn = "asm_arith_imm_blind"
     /\ last.op \in Ops64
     /\ ~isS8(last.imm))
    => regs[last.rr] = ArithOp(last.op, regs0[last.ra], SignExt(last.imm, 8))

\* C3: asm_immq(r, v, canClobberCCs = true, blind = true) leaves exactly v
\* in all 64 bits of r once the emitted code has run, on every branch.
C3_ImmqValue ==
    (/\ Ran
     /\ last.fn = "asm_immq"
     /\ last.canClobberCCs
     /\ last.blind)
    => regs[last.r] = last.v

C3_Witness ==
    /\ Ran
    /\ last.fn = "asm_immq"
    /\ last.canClobberCCs
    /\ last.blind
    /\ Len(log) = 3
    /\ log[2].mn = "MOVQI"
    /\ _blindMask64 # Zero(8)

---------------------------------------------------------------------------
(* The selectors that take immediate operands                              *)

\* A LIR operand: an immediate (immi, immq, immd) with its value and taint,
\* or a value that is not an immediate literal ("val").
LOperand(op, val, tainted) == [op |-> op, val |-> val, tainted |-> tainted]

isImm32(b)  == b.op = "immi" \/ (b.op = "immq" /\ isS32(b.val))
getImm32(b) == IF b.op = "immi" THEN b.val ELSE Trunc(b.val, 4)

ShiftOps == {"lshi", "rshi", "rshui", "lshq", "rshq", "rshuq"}
MulOps   == {"muli", "muljovi", "mulxovi"}

\* The opcode without its overflow-check suffix.
baseOp(op) ==
    CASE op \in {"addjovi", "addxovi"} -> "addi"
      [] op \in {"subjovi", "subxovi"} -> "subi"
      [] op = "addjovq" -> "addq" [] op = "subjovq" -> "subq"
      [] OTHER -> op

\* TODO(x): todo(#x) asserts in a debug build; in a release build the macro
\* is empty.
TODO_sets_error(a) == setError(NanoAssert(a, FALSE), "UnknownOpcode")
TODO(a) == NanoAssert(a, FALSE)

\* `switch (op) { default: TODO(x); case first: ...` : an opcode without a
\* case label runs TODO and then the code of the first case.
switchOn(a, op, labelled, first) ==
    IF labelled THEN [a |-> a, op |-> op] ELSE [a |-> TODO(a), op |-> first]

\* asm_shift and, for an immediate count, asm_shift_imm.
asm_shift(a, op, b, rr, ra) ==
    LET s  == switchOn(a, op, op \in ShiftOps, "rshuq")
        a1 == IF b.op = "immi"
              THEN asm_ins(s.a, Ins("SHI_" \o s.op, rr, "none",
                                    WAnd(b.val, W(63, 4)), <<>>))
              ELSE asm_ins(s.a, Ins("SH_" \o s.op, rr, "RCX", <<>>, <<>>))
    IN IF rr # ra THEN asm_ins(a1, MR(rr, ra)) ELSE a1

asm_arith_imm_movLast(a, op, b, rr, ra) ==
    LET imm == getImm32(b)
        s   == switchOn(a, baseOp(op), baseOp(op) \in Ops32 \cup Ops64, "addi")
        a1  == IF rr # ra THEN asm_ins(s.a, MR(rr, ra)) ELSE s.a
    IN asm_ins(a1, ArithRI(s.op, rr, imm))
asm_arith_imm(a, op, b, rr, ra) ==
    LET imm == getImm32(b)
    IN IF op \in MulOps THEN asm_ins(a, Ins("IMULI", rr, ra, imm, <<>>))
       ELSE LET s  == switchOn(a, baseOp(op),
                               baseOp(op) \in Ops32 \cup Ops64, "addi")
                i  == ArithRI(s.op, rr, imm)
                a1 == asm_ins(s.a, IF isS8(imm)
                                   THEN [i EXCEPT !.mn = ArithMn(s.op) \o "R8"]
                                   ELSE i)
            IN IF rr # ra THEN asm_ins(a1, MR(rr, ra)) ELSE a1

\* asm_div and asm_div_mod: idiv by rb, after RDX:RAX is made the sign
\* extension of the dividend.
asm_div_sarFirst(a, rb, aReg) ==
    LET ra == IF aReg # "none" THEN aReg ELSE "RAX"
        a1 == asm_ins(a, Ins("IDIV", rb, "none", <<>>, <<>>))
        a2 == asm_ins(a1, MR("RDX", "RAX"))
        a3 == asm_ins(a2, Ins("SARI", "RDX", "none", <<31>>, <<>>))
    IN [a   |-> IF ra # "RAX" THEN asm_ins(a3, MR("RAX", ra)) ELSE a3,
        div |-> "RAX", ra |-> ra]
\* rb is the register findRegFor hands back for the divisor, aReg the
\* register the dividend is in ("none" when it is in none); the result
\* register of the div is the one prepareResultReg may choose, RAX.
asm_div(a, rb, aReg) ==
    LET ra == IF aReg # "none" THEN aReg ELSE "RAX"
        a1 == asm_ins(a, Ins("IDIV", rb, "none", <<>>, <<>>))
        a2 == asm_ins(a1, Ins("SARI", "RDX", "none", <<31>>, <<>>))
        a3 == asm_ins(a2, MR("RDX", "RAX"))
    IN [a   |-> IF ra # "RAX" THEN asm_ins(a3, MR("RAX", ra)) ELSE a3,
        div |-> "RAX", ra |-> ra]

\* LIR_modi(LIR_divi(divL, divR)): the mod gets RDX, the div RAX.
asm_div_mod(a, rDivR, divLReg) ==
    LET rDivL == IF divLReg # "none" THEN divLReg ELSE "RAX"
        a1 == asm_ins(a, Ins("IDIV", rDivR, "none", <<>>, <<>>))
        a2 == asm_ins(a1, Ins("SARI", "RDX", "none", <<31>>, <<>>))
        a3 == asm_ins(a2, MR("RDX", "RAX"))
    IN [a   |-> IF rDivL # "RAX" THEN asm_ins(a3, MR("RAX", rDivL)) ELSE a3,
        div |-> "RAX", mod |-> "RDX", ra |-> rDivL]

\* rr, ra, rb are the registers beginOp1Regs / beginOp2Regs hand back.
asm_arith(a, op, b, rr, ra, rb) ==
    IF op \in ShiftOps THEN asm_shift(a, op, b, rr, ra)
    ELSE IF op = "modi" THEN asm_div_mod(a, rb, ra).a
    ELSE IF op = "divi" THEN asm_div(a, rb, ra).a
    ELSE
      LET blinded == IF isImm32(b) /\ b.tainted /\ shouldBlind(getImm32(b))
                     THEN asm_arith_imm_blind(a, op, getImm32(b), rr, ra)
                     ELSE [a |-> a, ret |-> FALSE]
          s  == switchOn(a, op,
                         baseOp(op) \in Ops32 \cup Ops64 \cup MulOps, "ori")
          a1 == asm_ins(s.a, Ins("RR_" \o s.op, rr, rb, <<>>, <<>>))
      IN IF blinded.ret THEN blinded.a
         ELSE IF isImm32(b) /\ ~(b.tainted /\ shouldBlind(getImm32(b)))
         THEN asm_arith_imm(a, op, b, rr, ra)
         ELSE IF rr # ra THEN asm_ins(a1, MR(rr, ra)) ELSE a1

asm_cmpi_noTaintTest(a, q, b, ra, rb) ==
    IF isImm32(b)
    THEN asm_ins(a, Ins(IF q THEN "CMPQRI" ELSE "CMPLRI", ra, "none",
                        getImm32(b), <<>>))
    ELSE asm_ins(a, Ins(IF q THEN "CMPQR" ELSE "CMPLR", ra, rb, <<>>, <<>>))
\* asm_cmpi with asm_cmpi_imm; q says the comparison is a 64-bit one.
asm_cmpi(a, q, b, ra, rb) ==
    IF isImm32(b) /\ ~(b.tainted /\ shouldBlind(getImm32(b)))
    THEN LET imm == getImm32(b)
         IN asm_ins(a, Ins((IF q THEN "CMPQR" ELSE "CMPLR")
                             \o (IF isS8(imm) THEN "8" ELSE "I"),
                           ra, "none", imm, <<>>))
    ELSE asm_ins(a, Ins(IF q THEN "CMPQR" ELSE "CMPLR", ra, rb, <<>>, <<>>))

\* A call to the register allocator's base-register routines, kept in the
\* log between the instructions: the base register rb it hands back, the
\* original base register orb, and whether blinding of the displacement
\* was forced.
baseRegCall(a, fn, rb, orb, force) ==
    [a EXCEPT !.log = Append(@,
        [mn |-> fn, r |-> rb, b |-> orb, imm |-> <<>>, rip |-> <<>>,
         t |-> <<>>, at |-> <<>>, force |-> force])]
getBaseRegWithBlinding(a, rb, orb, force) ==
    baseRegCall(a, "getBaseRegWithBlinding", rb, orb, force)
getBaseReg2WithBlinding(a, rb, orb, force) ==
    baseRegCall(a, "getBaseReg2WithBlinding", rb, orb, force)
adjustBaseRegForBlinding(a, rb, orb) ==
    baseRegCall(a, "adjustBaseRegForBlinding", rb, orb, FALSE)

\* The stores.  tainted is the taint of the store, force what
\* forceDisplacementBlinding(tainted) answered, r the register of the
\* value, rb and orb the base register and the original base register.
asm_store32_noForce(a, op, value, tainted, force, r, rb, orb) ==
    IF value.op = "immi" /\ ~(value.tainted /\ shouldBlind(value.val))
    THEN LET a1 == getBaseRegWithBlinding(a, rb, orb, force)
             a2 == asm_ins(a1, Ins(CASE op = "sti2c" -> "MOVBMI"
                                     [] op = "sti2s" -> "MOVSMI"
                                     [] op = "sti" -> "MOVLMI",
                                   rb, "none", value.val, <<>>))
         IN adjustBaseRegForBlinding(a2, rb, orb)
    ELSE LET a1 == getBaseRegWithBlinding(a, rb, orb, force)
             a2 == asm_ins(a1, Ins(CASE op = "sti2c" -> "MOVBMR"
                                     [] op = "sti2s" -> "MOVSMR"
                                     [] op = "sti" -> "MOVLMR",
                                   r, rb, <<>>, <<>>))
         IN adjustBaseRegForBlinding(a2, rb, orb)

asm_store32(a, op, value, tainted, force, r, rb, orb) ==
    IF value.op = "immi" /\ ~(value.tainted /\ shouldBlind(value.val))
    THEN LET a1 == getBaseRegWithBlinding(a, rb, orb, force \/ tainted)
             a2 == asm_ins(a1, Ins(CASE op = "sti2c" -> "MOVBMI"
                                     [] op = "sti2s" -> "MOVSMI"
                                     [] op = "sti" -> "MOVLMI",
                                   rb, "none", value.val, <<>>))
         IN adjustBaseRegForBlinding(a2, rb, orb)
    ELSE LET a1 == getBaseRegWithBlinding(a, rb, orb, force)
             a2 == asm_ins(a1, Ins(CASE op = "sti2c" -> "MOVBMR"
                                     [] op = "sti2s" -> "MOVSMR"
                                     [] op = "sti" -> "MOVLMR",
                                   r, rb, <<>>, <<>>))
         IN adjustBaseRegForBlinding(a2, rb, orb)

asm_store64(a, op, value, tainted, force, r, rb, orb) ==
    IF op = "stq"
    THEN IF value.op = "immq" /\ isS32(value.val)
            /\ ~(value.tainted /\ shouldBlind(value.val))
         THEN LET a1 == getBaseRegWithBlinding(a, rb, orb, force \/ tainted)
                  a2 == asm_ins(a1, Ins("MOVQMI", rb, "none",
                                        Trunc(value.val, 4), <<>>))
              IN adjustBaseRegForBlinding(a2, rb, orb)
         ELSE LET a1 == getBaseReg2WithBlinding(a, rb, orb, force)
                  a2 == asm_ins(a1, Ins("MOVQMR", r, rb, <<>>, <<>>))
              IN adjustBaseRegForBlinding(a2, rb, orb)
    ELSE IF op \in {"std", "stf"}
    THEN LET a1 == getBaseRegWithBlinding(a, rb, orb, force)
             a2 == asm_ins(a1, Ins(CASE op = "std" -> "MOVSDMR"
                                     [] op = "stf" -> "MOVSSMR",
                                   "XMM0", rb, <<>>, <<>>))
         IN adjustBaseRegForBlinding(a2, rb, orb)
    ELSE IF op = "std2f"
    THEN LET a1 == getBaseRegWithBlinding(a, rb, orb, force)
             a2 == asm_ins(a1, Ins("MOVSSMR", "XMM1", rb, <<>>, <<>>))
             a3 == asm_ins(a2, Ins("CVTSD2SS", "XMM1", "XMM0", <<>>, <<>>))
             a4 == asm_ins(a3, Ins("XORPS", "XMM1", "XMM1", <<>>, <<>>))
         IN adjustBaseRegForBlinding(a4, rb, orb)
    ELSE NanoAssert(a, FALSE)

asm_store128(a, op, value, tainted, force, rb, orb) ==
    LET a1 == getBaseRegWithBlinding(NanoAssert(a, op = "stf4"), rb, orb, force)
        a2 == asm_ins(a1, Ins("MOVUPSMR", "XMM0", rb, <<>>, <<>>))
    IN adjustBaseRegForBlinding(a2, rb, orb)

\* beginLoadRegs and endLoadRegs around the load of asm_load32,
\* asm_load64 and asm_load128; rr is the register of the result.
beginLoadRegs(a, force, rb, orb) == getBaseRegWithBlinding(a, rb, orb, force)
endLoadRegs(a, rb, orb) == adjustBaseRegForBlinding(a, rb, orb)

asm_load32(a, op, force, rr, rb, orb) ==
    LET a1 == beginLoadRegs(a, force, rb, orb)
        a2 == CASE op = "lduc2ui" -> asm_ins(a1, Ins("MOVZX8M", rr, rb, <<>>, <<>>))
                [] op = "ldus2ui" -> asm_ins(a1, Ins("MOVZX16M", rr, rb, <<>>, <<>>))
                [] op = "ldi"     -> asm_ins(a1, Ins("MOVLRM", rr, rb, <<>>, <<>>))
                [] op = "ldc2i"   -> asm_ins(a1, Ins("MOVSX8M", rr, rb, <<>>, <<>>))
                [] op = "lds2i"   -> asm_ins(a1, Ins("MOVSX16M", rr, rb, <<>>, <<>>))
                [] OTHER          -> NanoAssert(a1, FALSE)
    IN endLoadRegs(a2, rb, orb)

asm_load64(a, op, force, rr, rb, orb) ==
    IF op \in {"ldq", "ldd", "ldf", "ldf2d"}
    THEN LET a1 == beginLoadRegs(a, force, rb, orb)
             a2 == CASE op = "ldq" -> asm_ins(a1, Ins("MOVQRM", rr, rb, <<>>, <<>>))
                     [] op = "ldd" -> asm_ins(a1, Ins("MOVSDRM", "XMM0", rb, <<>>, <<>>))
                     [] op = "ldf" -> asm_ins(a1, Ins("MOVSSRM", "XMM0", rb, <<>>, <<>>))
                     [] op = "ldf2d" ->
                          asm_ins(asm_ins(a1, Ins("CVTSS2SD", "XMM0", "XMM0",
                                                  <<>>, <<>>)),
                                  Ins("MOVSSRM", "XMM0", rb, <<>>, <<>>))
         IN endLoadRegs(a2, rb, orb)
    ELSE NanoAssert(a, FALSE)

asm_load128(a, op, force, rb, orb) ==
    LET a1 == beginLoadRegs(NanoAssert(a, op = "ldf4"), force, rb, orb)
        a2 == asm_ins(a1, Ins("MOVUPSRM", "XMM0", rb, <<>>, <<>>))
    IN endLoadRegs(a2, rb, orb)

asm_regarg(a, ty, p, r, t) ==
    IF ty = "ARGTYPE_I" /\ p.op = "immi"
    THEN asm_immq(a, r, SignExt(p.val, 8), TRUE, p.tainted, t)
    ELSE IF ty = "ARGTYPE_UI" /\ p.op = "immi"
    THEN asm_immq(a, r, ZeroExt(p.val, 8), TRUE, p.tainted, t)
    ELSE IF ty = "ARGTYPE_I" THEN asm_ins(a, Ins("MOVSXDR", r, r, <<>>, <<>>))
    ELSE IF ty = "ARGTYPE_UI" THEN asm_ins(a, Ins("MOVLR", r, r, <<>>, <<>>))
    ELSE a

asm_immd(a, r, v, canClobberCCs, blind, rt) ==
    IF v = Zero(8) /\ canClobberCCs
    THEN asm_ins(a, Ins("XORPS", r, r, <<>>, <<>>))
    ELSE asm_immq(asm_ins(a, Ins("MOVQXR", r, rt, <<>>, <<>>)),
                  rt, v, canClobberCCs, blind, rt)

\* asm_immf and asm_immf4 on a register; the float4 literal is 16 bytes,
\* and vaddr is where findImmF4FromPool keeps it.
asm_immf(a, r, v, canClobberCCs, blind, rt) ==
    IF v = Zero(4) /\ canClobberCCs
    THEN asm_ins(a, Ins("XORPS", r, r, <<>>, <<>>))
    ELSE asm_immi(asm_ins(a, Ins("MOVDXR", r, rt, <<>>, <<>>)),
                  rt, v, canClobberCCs, blind)

asm_immf4(a, r, v, canClobberCCs, blind, rt, vaddr) ==
    IF v = Zero(16) /\ canClobberCCs
    THEN asm_ins(a, Ins("XORPS", r, r, <<>>, <<>>))
    ELSE IF SubSeq(v, 9, 16) = Zero(8) /\ ~blind
    THEN asm_immd(a, r, SubSeq(v, 1, 8), canClobberCCs, FALSE, rt)
    ELSE LET is_aligned == vaddr[1] % 16 = 0
         IN Then(isTargetWithinS32(a, vaddr, 12), LAMBDA w :
              IF w.ok
              THEN asm_ins(w.a, Ins(IF is_aligned THEN "MOVAPSRMRIP"
                                    ELSE "MOVUPSRMRIP", r, "none",
                                    Trunc(WSub(vaddr, w.a.nIns), 4), w.a.nIns))
              ELSE asm_immq(asm_ins(w.a, Ins(IF is_aligned THEN "MOVAPSRM"
                                             ELSE "MOVUPSRM", r, rt,
                                             Zero(4), <<>>)),
                            rt, vaddr, canClobberCCs, FALSE, rt))

\* ins is the value to bring back into r: ins.op is allocp, immi, immq,
\* immd, immf, immf4, addi or addq (with the immediate or second operand in ins.b and
\* lhsInBase telling whether the first operand sits in a base register), or
\* another integer instruction; vaddr is where the literal pool keeps a
\* float4 literal.
canRematLEA(ins) ==
    CASE ins.op = "addi" ->
           ins.lhsInBase /\ ins.b.op = "immi"
           /\ ~(ins.b.tainted /\ shouldBlind(ins.b.val))
      [] ins.op = "addq" ->
           ins.lhsInBase /\ ins.b.op = "immq" /\ isS32(ins.b.val)
           /\ ~(ins.b.tainted /\ shouldBlind(ins.b.val))
      [] OTHER -> FALSE

canRemat(ins) ==
    \/ /\ ins.op \in {"immi", "immq", "immd", "immf", "immf4"}
       /\ ~(ins.op = "immi" /\ ins.b.tainted /\ shouldBlind(ins.b.val))
       /\ ~(ins.op = "immq" /\ ins.b.tainted /\ shouldBlind(ins.b.val))
    \/ ins.op = "allocp"
    \/ canRematLEA(ins)

asm_restore(a, ins, r, t, vaddr) ==
    IF ins.op = "allocp" THEN asm_ins(a, Ins("LEAQRM", r, "FP", <<>>, <<>>))
    ELSE IF ins.op = "immi" /\ ~(ins.b.tainted /\ shouldBlind(ins.b.val))
    THEN asm_immi(a, r, ins.b.val, FALSE, FALSE)
    ELSE IF ins.op = "immq" /\ ~(ins.b.tainted /\ shouldBlind(ins.b.val))
    THEN asm_immq(a, r, ins.b.val, FALSE, FALSE, t)
    ELSE IF ins.op = "immd" /\ ~ins.b.tainted
    THEN asm_immd(a, "XMM0", ins.b.val, FALSE, FALSE, t)
    ELSE IF ins.op = "immf" /\ ~ins.b.tainted
    THEN asm_immf(a, "XMM0", ins.b.val, FALSE, FALSE, t)
    ELSE IF ins.op = "immf4"
    THEN asm_immf4(a, "XMM0", ins.b.val, FALSE, ins.b.tainted, t, vaddr)
    ELSE IF canRematLEA(ins)
    THEN asm_ins(a, Ins(IF ins.op = "addq" THEN "LEAQRM" ELSE "LEALRM",
                        r, "RCX", getImm32(ins.b), <<>>))
    ELSE asm_ins(a, Ins(CASE ins.op = "immd" -> "MOVSDRM"
                          [] ins.op \in {"immq", "addq"} -> "MOVQRM"
                          [] ins.op = "immf" -> "MOVSSRM"
                          [] ins.op = "immf4" -> "MOVUPSRM"
                          [] OTHER -> "MOVLRM",
                        IF ins.op \in {"immd", "immf", "immf4"} THEN "XMM0"
                        ELSE r, "FP", <<>>, <<>>))

---------------------------------------------------------------------------
(* SpecSelect: one call of a selector on an operand                        *)

ImmI == {LOperand("immi", k, t) : k \in Imm32s \cup {Zero(4)}, t \in BOOLEAN}
ImmQ == {LOperand("immq", v, t) : v \in Imm64s, t \in BOOLEAN}
ImmD == {LOperand("immd", v, t) : v \in {Zero(8), <<0, 0, 0, 0, 0, 0, 240, 63>>},
                                  t \in BOOLEAN}
NonImm == {LOperand("val", <<>>, t) : t \in BOOLEAN}

InitSelect ==
    /\ \E flb \in BOOLEAN : InitAsm("mid", 0, flb)
    /\ _blindMask32 \in Mask32s
    /\ _blindMask64 \in Mask64s
    /\ blindSet \in BlindSets
    /\ regs0 \in RegFiles
    /\ regs = regs0
    /\ xi = 0

\* What every selector call leaves behind: the assembler, and the call.
Called(fn, op, b, a) ==
    /\ last.fn = "init"
    /\ SetAsm(a)
    /\ last' = [fn |-> fn, op |-> op, b |-> b]
    /\ UNCHANGED << confVars, exitVars, execVars >>

AsmArith ==
    \E op \in Ops32 \cup Ops64
              \cup {"lshi", "rshuq", "muli", "addxovi", "subjovq", "divi"},
       ra \in {"RAX", "RCX"} :
      \E b \in (IF baseOp(op) \in Ops64 THEN ImmQ ELSE ImmI) \cup NonImm :
         Called("asm_arith", op, b, asm_arith(TheAsm, op, b, "RAX", ra, "RDX"))

AsmCmpi ==
    \E q \in BOOLEAN :
      \E b \in (IF q THEN ImmQ ELSE ImmI) \cup NonImm :
         Called("asm_cmpi", IF q THEN "eqq" ELSE "eqi", b,
                asm_cmpi(TheAsm, q, b, "RAX", "RCX"))

AsmStore32 ==
    \E op \in {"sti", "sti2s", "sti2c"}, value \in ImmI \cup NonImm :
       Called("asm_store32", op, value,
              asm_store32(TheAsm, op, value, value.tainted, FALSE,
                          "RAX", "RCX", "RCX"))

AsmStore64 ==
    \E op \in {"stq", "std", "stf"} :
      \E value \in (IF op = "stq" THEN ImmQ ELSE ImmD) \cup NonImm :
         Called("asm_store64", op, value,
                asm_store64(TheAsm, op, value, value.tainted, FALSE,
                            "RAX", "RCX", "RCX"))

\* asm_immi(LIns*) and asm_immq(LIns*): the literal's own instruction.
AsmImm ==
    \E b \in ImmI \cup ImmQ, r \in {"RAX", "RCX"} :
      \E t \in TempRegs(r) :
         Called(IF b.op = "immi" THEN "asm_immi" ELSE "asm_immq", b.op, b,
                IF b.op = "immi"
                THEN asm_immi(TheAsm, r, b.val, TRUE, b.tainted)
                ELSE asm_immq(TheAsm, r, b.val, TRUE, b.tainted, t))

AsmRegarg ==
    \E ty \in {"ARGTYPE_I", "ARGTYPE_UI", "ARGTYPE_Q"} :
      \E p \in (IF ty = "ARGTYPE_Q" THEN ImmQ ELSE ImmI) \cup NonImm :
        \E t \in TempRegs("RCX") :
           Called("asm_regarg", ty, p, asm_regarg(TheAsm, ty, p, "RCX", t))

AsmRestore ==
    \E op \in {"allocp", "immi", "immq", "immd", "addi", "addq", "ldi"},
       lhsInBase \in BOOLEAN :
      \E b \in (CASE op \in {"immi", "addi"} -> ImmI
                  [] op \in {"immq", "addq"} -> ImmQ
                  [] op = "immd" -> ImmD
                  [] OTHER -> NonImm)
               \cup (IF op \in {"addi", "addq"} THEN NonImm ELSE {}) :
         Called("asm_restore", op, b,
                asm_restore(TheAsm, [op |-> op, b |-> b, lhsInBase |-> lhsInBase],
                            "RAX", "RDX", NULL))

NextSelect ==
    \/ AsmArith
    \/ AsmCmpi
    \/ AsmStore32
    \/ AsmStore64
    \/ AsmImm
    \/ AsmRegarg
    \/ AsmRestore

SpecSelect == InitSelect /\ [][NextSelect]_vars

\* The forms in which the literal of operand b can stand in an immediate
\* field: itself, and its low 32 bits when those determine it.
Lits(b) ==
    {b.val} \cup (IF Len(b.val) = 8 /\ (isS32(b.val) \/ isU32(b.val))
                  THEN {Trunc(b.val, 4)} ELSE {})

\* The fields the blinding paths emit for the literal of b.
SplitFields(b) ==
    LET k32 == Trunc(b.val, 4)
    IN UNION { {blindFields(op, k32, _blindMask32)[1],
                blindFields(op, k32, _blindMask32)[2]} : op \in Ops32 }
       \cup {_blindMask32, WXor(k32, _blindMask32)}
       \cup (IF Len(b.val) = 8
             THEN {_blindMask64, WXor(b.val, _blindMask64)} ELSE {})

OfTaintedImm ==
    /\ last.fn # "init"
    /\ last.b.op \in {"immi", "immq", "immd"}
    /\ last.b.tainted

\* C4 as stated: in asm_arith, asm_cmpi, asm_store32, asm_store64, asm_immi,
\* asm_immq, asm_regarg and asm_restore the literal of a tainted immediate
\* operand never stands in the immediate field of an emitted instruction.
C4_TaintedNeverVerbatim ==
    OfTaintedImm
    => \A i \in 1..Len(log) : log[i].imm \notin Lits(last.b)

\* C4, amended: for a tainted immediate that shouldBlind selects, and apart
\* from shift counts, those routines put the literal in an immediate field
\* only as one of the fields of its split with the blind mask (which equals
\* the literal for particular masks only); otherwise the operand comes from
\* a register or is reloaded from its spill slot.
C4_SelectedTaintedSplit ==
    (/\ OfTaintedImm
     /\ shouldBlind(last.b.val)
     /\ last.op \notin ShiftOps)
    => \A i \in 1..Len(log) :
          log[i].imm \in Lits(last.b) => log[i].imm \in SplitFields(last.b)

C4_Witness ==
    /\ OfTaintedImm
    /\ shouldBlind(last.b.val)
    /\ last.fn = "asm_cmpi"
    /\ last.b.val = <<68, 51, 34, 17>>
    /\ _blindMask32 = <<239, 190, 173, 222>>
    /\ log[1].mn = "CMPLR"

---------------------------------------------------------------------------
(* Branches and calls                                                      *)

IntConds ==
    {"eqi", "lti", "gti", "lei", "gei", "ltui", "gtui", "leui", "geui",
     "eqq", "ltq", "gtq", "leq", "geq", "ltuq", "gtuq", "leuq", "geuq", "eqf4"}
FloatConds ==
    {"eqd", "ltd", "gtd", "led", "ged", "eqf", "ltf", "gtf", "lef", "gef"}

\* The condition of the jump taken when the comparison holds.
ccOfCond(condop) ==
    CASE condop \in {"eqi", "eqq", "eqf4"} -> "E"
      [] condop \in {"lti", "ltq"}   -> "L"
      [] condop \in {"gti", "gtq"}   -> "G"
      [] condop \in {"lei", "leq"}   -> "LE"
      [] condop \in {"gei", "geq"}   -> "GE"
      [] condop \in {"ltui", "ltuq"} -> "B"
      [] condop \in {"gtui", "gtuq"} -> "A"
      [] condop \in {"leui", "leuq"} -> "BE"
      [] condop \in {"geui", "geuq"} -> "AE"

asm_branchi_S8(a, onFalse, condop, target) ==
    Then(IF condop \in IntConds
         THEN J8(a, 8, ccOfCond(condop), onFalse, target)
         ELSE NanoAssert(a, FALSE),
         LAMBDA a1 : [a |-> a1, ret |-> a1.nIns])

asm_branchi_S32(a, onFalse, condop, target) ==
    Then(IF condop \in IntConds
         THEN J(a, 8, ccOfCond(condop), onFalse, target)
         ELSE NanoAssert(a, FALSE),
         LAMBDA a1 : [a |-> a1, ret |-> a1.nIns])

getCmpDOpcode(condop) ==
    CASE condop = "eqf" -> "eqd" [] condop = "ltf" -> "ltd"
      [] condop = "gtf" -> "gtd" [] condop = "lef" -> "led"
      [] condop = "gef" -> "ged" [] OTHER -> condop

\* The long form shared by the helpers: underrunProtect(bytes), skip = _nIns,
\* JMP64(16, target), patch = _nIns.  Gives the assembler, skip and patch.
jmp64_over(a, bytes, target) ==
    Then(underrunProtect(a, bytes), LAMBDA c0 :
      Then(JMP64(c0, 16, target), LAMBDA c1 :
        [a |-> c1, skip |-> c0.nIns, patch |-> c1.nIns]))

\* `target && isTargetWithinS32(target)`: the assembler and the answer.
known_within32(a, target) ==
    IF target = NULL THEN [a |-> a, ok |-> FALSE]
    ELSE isTargetWithinS32(a, target, 8)

\* Returns the assembler and the two patch locations (NULL when absent).
asm_branchd_helper(a, onFalse, cond, target) ==
    LET condop == getCmpDOpcode(cond)
        gt     == condop \in {"ltd", "gtd"}
    IN
    IF condop = "eqd"
    THEN
      Then(known_within32(underrunProtect(NanoAssert(a, condop # "eqf4"), 14),
                          target), LAMBDA w :
        IF onFalse
        THEN IF w.ok
             THEN Then(J(w.a, 8, "P", FALSE, target), LAMBDA b1 :
                    Then(J(b1, 8, "E", TRUE, target), LAMBDA b2 :
                      [a |-> b2, ret |-> <<b1.nIns, b2.nIns>>]))
             ELSE Then(jmp64_over(w.a, 38, target), LAMBDA j1 :
                    Then(J8(j1.a, 8, "P", TRUE, j1.skip), LAMBDA c2 :
                      Then(JMP64(c2, 16, target), LAMBDA c3 :
                        [a |-> J8(c3, 8, "E", FALSE, c2.nIns),
                         ret |-> <<j1.patch, c3.nIns>>])))
        ELSE IF w.ok
             THEN Then(J(w.a, 8, "E", FALSE, target), LAMBDA b1 :
                    [a |-> J8(b1, 8, "P", FALSE, w.a.nIns),
                     ret |-> <<b1.nIns, NULL>>])
             ELSE Then(jmp64_over(w.a, 28, target), LAMBDA j1 :
                    [a |-> J8(J8(j1.a, 8, "E", TRUE, j1.skip),
                              8, "P", FALSE, j1.skip),
                     ret |-> <<j1.patch, NULL>>]))
    ELSE
      Then(known_within32(NanoAssert(a, condop # "eqf4"), target), LAMBDA w :
        IF w.ok
        THEN Then(IF gt
                  THEN (IF onFalse THEN J(w.a, 8, "BE", FALSE, target)
                                   ELSE J(w.a, 8, "A", FALSE, target))
                  ELSE (IF onFalse THEN J(w.a, 8, "B", FALSE, target)
                                   ELSE J(w.a, 8, "AE", FALSE, target)),
                  LAMBDA b1 : [a |-> b1, ret |-> <<b1.nIns, NULL>>])
        ELSE Then(jmp64_over(w.a, 22, target), LAMBDA j1 :
               [a |-> IF gt
                      THEN (IF onFalse THEN J8(j1.a, 8, "A", FALSE, j1.skip)
                                       ELSE J8(j1.a, 8, "BE", FALSE, j1.skip))
                      ELSE (IF onFalse THEN J8(j1.a, 8, "AE", FALSE, j1.skip)
                                       ELSE J8(j1.a, 8, "B", FALSE, j1.skip)),
                ret |-> <<j1.patch, NULL>>]))

\* `target && isTargetWithinS8(target)`, and when that fails
\* `target && isTargetWithinS32(target)`: the assembler and "S8", "S32", "far".
known_reach(a, target) ==
    IF target = NULL THEN [a |-> a, reach |-> "far"]
    ELSE Then(isTargetWithinS8(a, target), LAMBDA w8 :
           IF w8.ok THEN [a |-> w8.a, reach |-> "S8"]
           ELSE Then(isTargetWithinS32(w8.a, target, 8), LAMBDA w32 :
                  [a |-> w32.a, reach |-> IF w32.ok THEN "S32" ELSE "far"]))

asm_branch_helper(a, onFalse, cond, target) ==
    IF cond \in FloatConds THEN asm_branchd_helper(a, onFalse, cond, target)
    ELSE
      Then(known_reach(a, target), LAMBDA w :
        IF w.reach = "S8"
        THEN Then(asm_branchi_S8(w.a, onFalse, cond, target), LAMBDA r :
               [a |-> r.a, ret |-> <<r.ret, NULL>>])
        ELSE IF w.reach = "S32"
        THEN Then(asm_branchi_S32(w.a, onFalse, cond, target), LAMBDA r :
               [a |-> r.a, ret |-> <<r.ret, NULL>>])
        ELSE Then(jmp64_over(w.a, 22, target), LAMBDA j1 :
               [a |-> asm_branchi_S8(j1.a, ~onFalse, cond, j1.skip).a,
                ret |-> <<j1.patch, NULL>>]))

asm_branch_ov(a, target) ==
    Then(known_reach(a, target), LAMBDA w :
      Then(IF w.reach = "S8" THEN J8(w.a, 8, "O", FALSE, target)
           ELSE IF w.reach = "S32" THEN J(w.a, 8, "O", FALSE, target)
           ELSE Then(jmp64_over(w.a, 22, target), LAMBDA j1 :
                  J8(j1.a, 8, "O", TRUE, j1.skip)),
           LAMBDA a1 : [a |-> a1, ret |-> <<a1.nIns, NULL>>]))

\* The call instruction of a direct call (argument set-up left out).
asm_call(a, target) ==
    Then(isTargetWithinS32(a, target, 8), LAMBDA w :
      IF w.ok THEN CALL(w.a, 8, target)
      ELSE asm_immq(CALLRAX(w.a), "RAX", target, TRUE, FALSE, "RCX"))

---------------------------------------------------------------------------
(* SpecBranch: one jump, branch or call is assembled                       *)

\* Distances from the cursor to the targets tried: around the limits of
\* the 8-bit and 32-bit forms, and beyond.
Deltas ==
    { Zero(8), W(127, 8), W(128, 8), WNeg(W(128, 8)), WNeg(W(129, 8)),
      <<255, 255, 255, 127, 0, 0, 0, 0>>, <<0, 0, 0, 128, 0, 0, 0, 0>>,
      <<0, 0, 0, 128, 255, 255, 255, 255>>,
      <<255, 255, 255, 127, 255, 255, 255, 255>>,
      <<0, 0, 0, 0, 0, 1, 0, 0>> }

Targets == {NULL} \cup {WAdd(_nIns, d) : d \in Deltas}

InitBranch ==
    /\ \E layout \in {"near", "mid", "far"},
          used \in {0, ChunkSize - 21, ChunkSize - 10, ChunkSize - 3},
          flb \in BOOLEAN : InitAsm(layout, used, flb)
    /\ _blindMask32 = <<239, 190, 173, 222>>
    /\ _blindMask64 = <<239, 190, 173, 222, 13, 240, 173, 186>>
    /\ blindSet = {}
    /\ regs0 = [r \in Regs |-> NULL]
    /\ regs = regs0
    /\ xi = 0

\* What a call leaves behind: the assembler, and in `last` the routine, its
\* arguments, the locations it returned, and the distance to the target from
\* the cursor as it is after underrunProtect(protect).
Branched(fn, onFalse, cond, target, protect, res) ==
    \E r \in {res} :
       /\ SetAsm(r.a)
       /\ last' = [fn |-> fn, onFalse |-> onFalse, cond |-> cond,
                   target |-> target, ret |-> r.ret, n0 |-> _nIns,
                   dist |-> WSub(target, underrunProtect(TheAsm, protect).nIns)]
       /\ UNCHANGED << confVars, exitVars, execVars >>

CallJMP ==
    /\ last.fn = "init"
    /\ \E target \in Targets :
         Branched("JMP", FALSE, "none", target, 8,
                  [a |-> JMP(TheAsm, target), ret |-> <<NULL, NULL>>])

CallJMPl ==
    /\ last.fn = "init"
    /\ \E target \in Targets :
         Branched("JMPl", FALSE, "none", target, 8,
                  [a |-> JMPl(TheAsm, target), ret |-> <<NULL, NULL>>])

AsmBranchHelper ==
    /\ last.fn = "init"
    /\ \E onFalse \in BOOLEAN, cond \in IntConds \cup FloatConds,
          target \in Targets :
         Branched("asm_branch_helper", onFalse, cond, target,
                  IF getCmpDOpcode(cond) = "eqd" THEN 14 ELSE 8,
                  asm_branch_helper(TheAsm, onFalse, cond, target))

AsmBranchOv ==
    /\ last.fn = "init"
    /\ \E target \in Targets :
         Branched("asm_branch_ov", FALSE, "none", target, 8,
                  asm_branch_ov(TheAsm, target))

AsmCall ==
    /\ last.fn = "init"
    /\ \E target \in Targets \ {NULL} :
         Branched("asm_call", FALSE, "none", target, 8,
                  [a |-> asm_call(TheAsm, target), ret |-> <<NULL, NULL>>])

NextBranch ==
    \/ CallJMP
    \/ CallJMPl
    \/ AsmBranchHelper
    \/ AsmBranchOv
    \/ AsmCall

SpecBranch == InitBranch /\ [][NextBranch]_vars

---------------------------------------------------------------------------
(* What a call left in the log and in the code                             *)

\* The form nPatchBranch finds at patch.
patchForm(m, patch) ==
    IF Load(m, patch, 0) = 233 THEN "jmp32"
    ELSE IF Load(m, patch, 0) = 15 /\ Load(m, patch, 1) \in 128..143
    THEN "jcc32"
    ELSE IF Load(m, patch, 0) = 255 /\ Load(m, patch, 1) = 37 THEN "jmp64"
    ELSE "unknown"

\* The log records of the routine itself: not the page-break record of
\* underrunProtect and not the bridging jump that follows it.
OwnIdx ==
    {i \in 1..Len(log) :
        log[i].mn # "newpage" /\ (i = 1 \/ log[i-1].mn # "newpage")}

\* Record i is a 2-byte jcc/jmp rel8, a 6-byte jcc rel32, a 5-byte jmp or
\* call rel32, the 14-byte jmp [rip+0] with its 64-bit target.
Rel8At(i) ==
    /\ Len(log[i].imm) = 1
    /\ log[i].at = PSub(log[i].rip, 2)
    /\ Load(mem, log[i].at, 0) \in (112..127) \cup {235}
Jcc32At(i) ==
    /\ Len(log[i].imm) = 4
    /\ log[i].at = PSub(log[i].rip, 6)
    /\ patchForm(mem, log[i].at) = "jcc32"
Rel32At(i) ==
    /\ Len(log[i].imm) = 4
    /\ log[i].at = PSub(log[i].rip, 5)
    /\ Load(mem, log[i].at, 0) \in {232, 233}
Jmp64At(i) ==
    /\ Len(log[i].imm) = 8
    /\ log[i].at = PSub(log[i].rip, 14)
    /\ patchForm(mem, log[i].at) = "jmp64"
    /\ \A k \in 0..7 : Load(mem, log[i].at, 6 + k) = log[i].imm[k + 1]

\* Record i is an 8-bit jump to the address just after an earlier long-form
\* record of the same call: it jumps over that instruction.
SkipsOver(i) ==
    /\ Rel8At(i)
    /\ WAdd(log[i].rip, SignExt(log[i].imm, 8)) = log[i].t
    /\ \E j \in OwnIdx :
          j < i /\ (Jcc32At(j) \/ Jmp64At(j)) /\ log[i].t = log[j].rip

\* The three shapes of a conditional branch to last.target.
Rel8Form ==
    \E i \in OwnIdx :
       OwnIdx = {i} /\ Rel8At(i) /\ log[i].t = last.target
Rel32Form ==
    /\ \E i \in OwnIdx : Jcc32At(i) /\ log[i].t = last.target
    /\ \A i \in OwnIdx :
          (Jcc32At(i) /\ log[i].t = last.target) \/ SkipsOver(i)
FarForm ==
    /\ \E i \in OwnIdx : Jmp64At(i) /\ log[i].imm = last.target
    /\ \E i \in OwnIdx : SkipsOver(i)
    /\ \A i \in OwnIdx :
          (Jmp64At(i) /\ log[i].imm = last.target) \/ SkipsOver(i)

\* The 8-bit conditional of an integer comparison has the sense asked for in
\* the short form and the inverse sense when it jumps over the 64-bit jump.
SenseOf8(neg) ==
    \A i \in OwnIdx :
       Rel8At(i) =>
          log[i].mn = (IF neg THEN "JN" ELSE "J") \o ccOfCond(last.cond) \o "8"

\* |d| <= 127 and |d| <= 2^31 - 1 for a signed 64-bit distance d.
Within127(d) == isS8(d) /\ d # SignExt(<<128>>, 8)
Within31(d)  == isS32(d) /\ d # SignExt(<<0, 0, 0, 128>>, 8)

BranchCase ==
    /\ last.fn = "asm_branch_helper"
    /\ ~force_long_branch
    /\ last.target # NULL

RECURSIVE ExecDown(_, _, _)
ExecDown(lg, i, R) ==
    IF Len(lg) < i THEN R
    ELSE ExecDown(SubSeq(lg, 1, Len(lg) - 1), i, Exec(lg[Len(lg)], R))

\* C6: with force_long_branch set, a call of JMP, JMPl, asm_branch_helper
\* (asm_branchd_helper included), asm_branch_ov or asm_call gets to the
\* caller's target through a 64-bit jump, or through CALLRAX with the target
\* loaded in RAX, or through a rel32 form; the 8-bit jumps it emits only jump
\* over one of its own long instructions.
C6_ForcedLong ==
    (force_long_branch /\ last.fn # "init") =>
       /\ \A i \in OwnIdx : Rel8At(i) => SkipsOver(i)
       /\ \E i \in OwnIdx :
             \/ Jmp64At(i) /\ log[i].imm = last.target
             \/ /\ (Jcc32At(i) \/ Rel32At(i))
                /\ WAdd(log[i].rip, SignExt(log[i].imm, 8)) = last.target
             \/ /\ log[i].mn = "CALLRAX"
                /\ ExecDown(log, i + 1, regs0)["RAX"] = last.target

\* JMP to a target 127 bytes or less away, forced to the 64-bit form.
C6_Witness ==
    /\ force_long_branch
    /\ last.fn = "JMP"
    /\ last.target # NULL
    /\ Within127(last.dist)
    /\ \E i \in OwnIdx : Jmp64At(i) /\ log[i].imm = last.target

\* C9: every patch location returned by asm_branch_helper (asm_branchd_helper
\* included) and asm_branch_ov for a null target or a target beyond 8-bit
\* reach is the first byte of a jmp rel32, a jcc rel32 or a jmp [rip+0].
C9_PatchSitesRecognized ==
    (/\ last.fn \in {"asm_branch_helper", "asm_branch_ov"}
     /\ (last.target = NULL \/ ~isS8(last.dist))) =>
       \A k \in 1..2 :
          last.ret[k] # NULL => patchForm(mem, last.ret[k]) # "unknown"

---------------------------------------------------------------------------
(* SpecEmit: the emitters called one after another, targets in and out of  *)
(* signed 32-bit range                                                     *)

MaxLog == 2

InitCode ==
    /\ \E layout \in {"near", "mid", "far"}, used \in {0, ChunkSize - 3} :
          InitAsm(layout, used, FALSE)
    /\ _blindMask32 = <<239, 190, 173, 222>>
    /\ _blindMask64 = <<239, 190, 173, 222, 13, 240, 173, 186>>
    /\ blindSet = {}
    /\ regs0 = [r \in Regs |-> NULL]
    /\ regs = regs0
    /\ xi = 0

\* Targets at both ends of the reach of a 32-bit displacement.
EmitTargets ==
    {NULL} \cup {WAdd(_nIns, d) :
                   d \in {Zero(8), <<255, 255, 255, 127, 0, 0, 0, 0>>,
                          <<0, 0, 0, 128, 0, 0, 0, 0>>,
                          <<255, 255, 255, 127, 255, 255, 255, 255>>}}

\* JMP32, JE or CALL; `last` keeps the distance from the cursor as it is
\* after underrunProtect.
EmitTarget32 ==
    /\ Len(log) < MaxLog
    /\ \E mn \in {"JMP32", "JE", "CALL"}, target \in EmitTargets :
         /\ SetAsm(CASE mn = "JMP32" -> JMP32(TheAsm, 8, target)
                     [] mn = "JE"    -> J(TheAsm, 8, "E", FALSE, target)
                     [] mn = "CALL"  -> CALL(TheAsm, 8, target))
         /\ last' = [fn |-> "emit_target32", target |-> target,
                     dist |-> WSub(target, underrunProtect(TheAsm, 8).nIns)]
    /\ UNCHANGED << confVars, exitVars, execVars >>

\* An emit without a target.
Emit ==
    /\ Len(log) < MaxLog
    /\ SetAsm(CALLRAX(TheAsm))
    /\ last' = [fn |-> "emit"]
    /\ UNCHANGED << confVars, exitVars, execVars >>

NextEmit == EmitTarget32 \/ Emit

SpecEmit == InitCode /\ [][NextEmit]_vars

\* C10 as stated: an emission that sets BranchTooFar, and every emission
\* while BranchTooFar is set, leaves the cursor and the code bytes as they
\* were.
C10_ErrorStopsEmission ==
    [][_err' = "BranchTooFar" => (_nIns' = _nIns /\ mem' = mem)]_vars

\* C10 amended: emit_target32 with a target out of signed 32-bit range sets
\* BranchTooFar and still emits its instruction, with the low 32 bits of the
\* distance as displacement and the cursor lowered by the instruction's
\* length; while BranchTooFar is set every later emit goes on writing code
\* and the error stays set.
C10_ErrorKeepsEmitting ==
    [][/\ (/\ last'.fn = "emit_target32"
           /\ last'.target # NULL
           /\ ~isS32(last'.dist)) =>
             /\ _err' = "BranchTooFar"
             /\ Len(log') > Len(log)
             /\ LET e == log'[Len(log')]
                IN /\ e.t = last'.target
                   /\ e.imm = Trunc(last'.dist, 4)
                   /\ e.at = _nIns'
                   /\ _nIns' \in {PSub(e.rip, 5), PSub(e.rip, 6)}
                   /\ \A k \in 0..3 :
                         Load(mem', PSub(e.rip, 4), k) = e.imm[k + 1]
       /\ _err = "BranchTooFar" =>
             /\ _err' = "BranchTooFar"
             /\ _nIns' # _nIns
             /\ mem' # mem
             /\ Len(log') > Len(log)]_vars

\* A CALLRAX emitted after BranchTooFar was set.
C10_Witness ==
    /\ _err = "BranchTooFar"
    /\ last.fn = "emit"
    /\ log[Len(log)].mn = "CALLRAX"
    /\ log[Len(log)].at = _nIns

---------------------------------------------------------------------------
(* SpecPatch: one patchable instruction, then nPatchBranch on it           *)

\* The displacement field ends at next; an unknown form has next = 0.
patchNext(a, patch) ==
    CASE patchForm(a.mem, patch) = "jmp32" -> [a |-> a, next |-> PAdd(patch, 5)]
      [] patchForm(a.mem, patch) = "jcc32" -> [a |-> a, next |-> PAdd(patch, 6)]
      [] OTHER -> [a |-> NanoAssert(a, FALSE), next |-> NULL]

nPatchBranch_noRangeTest(a, patch, target) ==
    IF patchForm(a.mem, patch) = "jmp64"
    THEN [a EXCEPT !.mem = Store(@, PAdd(patch, 6), target)]
    ELSE Then(patchNext(a, patch), LAMBDA w :
           [w.a EXCEPT !.mem = Store(@, PSub(w.next, 4),
                                     Trunc(WSub(target, w.next), 4))])

nPatchBranch_accumulate(a, patch, target) ==
    IF patchForm(a.mem, patch) = "jmp64"
    THEN [a EXCEPT !.mem = Store(@, PAdd(patch, 6), target)]
    ELSE Then(patchNext(a, patch), LAMBDA w :
           IF ~isS32(WSub(target, w.next)) THEN setError(w.a, "BranchTooFar")
           ELSE [w.a EXCEPT !.mem =
                   Store(@, PSub(w.next, 4),
                         WAdd([k \in 1..4 |-> Load(w.a.mem, PSub(w.next, 4), k - 1)],
                              Trunc(WSub(target, w.next), 4)))])

nPatchBranch(a, patch, target) ==
    IF patchForm(a.mem, patch) = "jmp64"
    THEN [a EXCEPT !.mem = Store(@, PAdd(patch, 6), target)]
    ELSE Then(patchNext(a, patch), LAMBDA w :
           IF ~isS32(WSub(target, w.next)) THEN setError(w.a, "BranchTooFar")
           ELSE [w.a EXCEPT !.mem = Store(@, PSub(w.next, 4),
                                          Trunc(WSub(target, w.next), 4))])

MaxPatches == 2

\* One instruction with a target in reach: the three patchable forms and a
\* call, which nPatchBranch does not know.
MakeSite ==
    /\ log = << >>
    /\ \E mn \in {"JMP32", "JE", "JMP64", "CALL"}, target \in {NULL, _nIns} :
         SetAsm(CASE mn = "JMP32" -> JMP32(TheAsm, 8, target)
                  [] mn = "JE"    -> J(TheAsm, 8, "E", FALSE, target)
                  [] mn = "JMP64" -> JMP64(TheAsm, 16, target)
                  [] mn = "CALL"  -> CALL(TheAsm, 8, target))
    /\ last' = [fn |-> "site"]
    /\ UNCHANGED << confVars, exitVars, execVars >>

\* New targets at both ends of the reach of the displacement at patch.
PatchTargets(patch) ==
    {WAdd(PAdd(patch, 6), d) :
        d \in {Zero(8), <<254, 255, 255, 127, 0, 0, 0, 0>>,
               <<255, 255, 255, 127, 0, 0, 0, 0>>,
               <<0, 0, 0, 128, 0, 0, 0, 0>>,
               <<250, 255, 255, 127, 255, 255, 255, 255>>}}

\* nPatchBranch on the instruction at the cursor; `last` keeps the arguments,
\* the form found and whether the call repeats the previous one.
NPatchBranch ==
    /\ log # << >>
    /\ xi < MaxPatches
    /\ \E target \in PatchTargets(_nIns) :
         /\ SetAsm(nPatchBranch(TheAsm, _nIns, target))
         /\ last' = [fn |-> "nPatchBranch", patch |-> _nIns, target |-> target,
                     form |-> patchForm(mem, _nIns),
                     again |-> last.fn = "nPatchBranch" /\ last.target = target]
    /\ xi' = xi + 1
    /\ UNCHANGED << confVars, exitVars, regs, regs0 >>

NextPatch == MakeSite \/ NPatchBranch

SpecPatch == InitCode /\ [][NextPatch]_vars

\* The bytes of m from addr on.
Field(m, addr, n) == [k \in 1..n |-> Load(m, addr, k - 1)]

\* C7: on a jmp rel32 or jcc rel32 site nPatchBranch writes the displacement
\* target - next, and nothing else, exactly when it fits a signed 32 bits;
\* otherwise it sets BranchTooFar and changes no byte.  On a jmp [rip+0]
\* site it writes the 8-byte target and leaves the error state alone.
C7_PatchIffInReach ==
    [][last'.fn = "nPatchBranch" =>
         LET patch  == last'.patch
             target == last'.target
             next   == PAdd(patch, IF last'.form = "jmp32" THEN 5 ELSE 6)
         IN IF last'.form \in {"jmp32", "jcc32"}
            THEN IF isS32(WSub(target, next))
                 THEN /\ mem' = Store(mem, PSub(next, 4),
                                      Trunc(WSub(target, next), 4))
                      /\ WAdd(next, SignExt(Field(mem', PSub(next, 4), 4), 8))
                            = target
                      /\ _err' = _err
                 ELSE /\ mem' = mem
                      /\ _err' = "BranchTooFar"
            ELSE IF last'.form = "jmp64"
            THEN /\ mem' = Store(mem, PAdd(patch, 6), target)
                 /\ Field(mem', PAdd(patch, 6), 8) = target
                 /\ _err' = _err
            ELSE TRUE]_vars

\* A jcc rel32 site refused a target 2^31 past its end.
C7_Witness ==
    /\ last.fn = "nPatchBranch"
    /\ last.form = "jcc32"
    /\ ~isS32(WSub(last.target, PAdd(last.patch, 6)))
    /\ _err = "BranchTooFar"

\* C8: on a site of one of the three recognized forms, a second
\* nPatchBranch with the patch and target of the call before it changes
\* neither the code bytes nor the error state.
C8_SecondPatchNoOp ==
    [][(/\ last.fn = "nPatchBranch"
        /\ last'.fn = "nPatchBranch"
        /\ last'.patch = last.patch
        /\ last'.target = last.target
        /\ last'.form # "unknown") => (mem' = mem /\ _err' = _err)]_vars

\* A jmp rel32 site patched twice to the same target in reach.
C8_Witness ==
    /\ last.fn = "nPatchBranch"
    /\ last.again
    /\ last.form = "jmp32"
    /\ _err = "None"
    /\ WAdd(PAdd(last.patch, 5), SignExt(Field(mem, PAdd(last.patch, 1), 4), 8))
          = last.target

---------------------------------------------------------------------------
(* SpecTodo: one call of a selector, on opcodes its switch has a case for  *)
(* and on opcodes it has none for                                          *)

\* Binary op with fp registers.
asm_fop(a, op, rr, ra, rb) ==
    LET s  == switchOn(a, op,
                       op \in {"divd", "muld", "addd", "subd", "divf", "mulf",
                               "addf", "subf", "divf4", "mulf4", "addf4",
                               "subf4"}, "divd")
        a1 == asm_ins(s.a, Ins("FOP_" \o s.op, rr, rb, <<>>, <<>>))
    IN IF rr # ra THEN asm_ins(a1, Ins("MOVAPSR", rr, ra, <<>>, <<>>)) ELSE a1

\* MOVZX8 r, r and before it (emitted after it) the SETcc of the comparison.
asm_cond(a, op, r) ==
    LET s == switchOn(asm_ins(a, Ins("MOVZX8", r, r, <<>>, <<>>)), op,
                      op \in IntConds \ {"eqf4"}, "eqq")
    IN asm_ins(s.a, Ins("SET" \o ccOfCond(s.op), r, "none", <<>>, <<>>))

\* No code to generate; an ordinary parameter past the argument registers
\* is not supported.
asm_param(a, arg, kind, NumArgRegs) ==
    IF kind = 0 /\ ~(arg < NumArgRegs) THEN TODO(a) ELSE a

\* The opcodes tried: some with a case in one of the switches, and retq,
\* which has a case in none of them.
AsmSelector ==
    \E fn \in {"asm_shift", "asm_shift_imm", "asm_arith_imm", "asm_arith",
               "asm_fop", "asm_cond", "asm_param"},
       op \in {"retq", "rshuq", "lshi", "addi", "xorq", "ori", "muli",
               "divd", "subf", "eqq", "geui"},
       ra \in {"RAX", "RCX"} :
      \E b \in CASE fn \in {"asm_shift_imm", "asm_arith_imm"} ->
                      {x \in ImmI : ~x.tainted}
                 [] fn = "asm_param" ->
                      {[arg |-> i, kind |-> k, NumArgRegs |-> n] :
                          i \in {0, 3, 4, 6}, k \in {0, 1}, n \in {4, 6}}
                 [] OTHER -> {x \in NonImm : ~x.tainted} :
         Called(fn, op, b,
                CASE fn \in {"asm_shift", "asm_shift_imm"} ->
                       asm_shift(TheAsm, op, b, "RAX", ra)
                  [] fn = "asm_arith_imm" ->
                       asm_arith_imm(TheAsm, op, b, "RAX", ra)
                  [] fn = "asm_arith" ->
                       asm_arith(TheAsm, op, b, "RAX", ra, "RDX")
                  [] fn = "asm_fop" -> asm_fop(TheAsm, op, "RAX", ra, "RDX")
                  [] fn = "asm_cond" -> asm_cond(TheAsm, op, "RAX")
                  [] fn = "asm_param" ->
                       asm_param(TheAsm, b.arg, b.kind, b.NumArgRegs))

SpecTodo == InitSelect /\ [][AsmSelector]_vars

\* The call was one the routine has no case for.
NotImplemented ==
    CASE last.fn \in {"asm_shift", "asm_shift_imm"} -> last.op \notin ShiftOps
      [] last.fn = "asm_arith_imm" ->
           baseOp(last.op) \notin Ops32 \cup Ops64 \cup MulOps
      [] last.fn = "asm_arith" ->
           baseOp(last.op) \notin Ops32 \cup Ops64 \cup MulOps \cup ShiftOps
      [] last.fn = "asm_fop" ->
           last.op \notin {"divd", "muld", "addd", "subd", "divf", "mulf",
                           "addf", "subf", "divf4", "mulf4", "addf4", "subf4"}
      [] last.fn = "asm_cond" -> last.op \notin IntConds \ {"eqf4"}
      [] last.fn = "asm_param" ->
           last.b.kind = 0 /\ last.b.arg >= last.b.NumArgRegs
      [] OTHER -> FALSE

\* C11 as stated: on an opcode the selector does not implement, the
\* compilation is aborted with the opcode recorded and no instruction is
\* emitted.
C11_TodoAborts ==
    NotImplemented => (_err # "None" /\ log = << >>)

\* C11 amended: on an opcode the selector has no case for, a release build
\* records nothing and goes on (a debug build asserts): asm_shift,
\* asm_shift_imm, asm_arith_imm, asm_arith, asm_fop and asm_cond emit the
\* instruction of the first case of their switch (shrq, shrq imm, addl imm,
\* orl, divsd, sete), and asm_param emits nothing.
C11_TodoFallsThrough ==
    NotImplemented =>
       /\ _err = "None"
       /\ assertFailed
       /\ IF last.fn = "asm_param" THEN log = << >>
          ELSE \E i \in 1..Len(log) :
                  log[i].mn =
                     CASE last.fn = "asm_shift"     -> "SH_rshuq"
                       [] last.fn = "asm_shift_imm" -> "SHI_rshuq"
                       [] last.fn = "asm_arith_imm" ->
                            IF isS8(last.b.val) THEN "ADDLR8" ELSE "ADDLRI"
                       [] last.fn = "asm_arith"     -> "RR_ori"
                       [] last.fn = "asm_fop"       -> "FOP_divd"
                       [] last.fn = "asm_cond"      -> "SETE"

\* asm_shift on retq has emitted shrq.
C11_Witness ==
    /\ last.fn = "asm_shift"
    /\ last.op = "retq"
    /\ _err = "None"
    /\ log # << >>
    /\ log[1].mn = "SH_rshuq"

---------------------------------------------------------------------------
(* SpecCursor: one-word and multi-part instructions emitted one after      *)
(* another, from cursors with much, some and hardly any room in the chunk  *)

InitCursor ==
    /\ \E layout \in {"near", "mid", "far"},
          used \in {0, ChunkSize - 20, ChunkSize - 12, ChunkSize - 3} :
          InitAsm(layout, used, FALSE)
    /\ _blindMask32 = <<239, 190, 173, 222>>
    /\ _blindMask64 = <<239, 190, 173, 222, 13, 240, 173, 186>>
    /\ blindSet = {}
    /\ regs0 = [r \in Regs |-> NULL]
    /\ regs = regs0
    /\ xi = 0

\* emit(op) and the asm_output that follows it in every mnemonic routine.
EmitOp ==
    /\ Len(log) < MaxLog
    /\ \E op \in {X64_callrax, X64_movlmi, X64_jmp, X64_jmpi} :
         /\ SetAsm(asm_output(emit(TheAsm, op), "emit", <<>>, <<>>, <<>>))
         /\ last' = [fn |-> "emit", op |-> op]
    /\ UNCHANGED << confVars, exitVars, execVars >>

\* JMP64: the 8-byte target, then the opcode word.
EmitTarget64 ==
    /\ Len(log) < MaxLog
    /\ \E target \in {NULL, ChunkBase} :
         /\ SetAsm(JMP64(TheAsm, 16, target))
         /\ last' = [fn |-> "emit_target64", target |-> target]
    /\ UNCHANGED << confVars, exitVars, execVars >>

\* MOVLMI: the immediate, then the displacement (1 or 4 bytes), then the
\* opcode word; base registers RBP and R13.
EmitRmImm32 ==
    /\ Len(log) < MaxLog
    /\ \E b \in {5, 13}, d \in {W(8, 4), W(4096, 4)} :
         /\ SetAsm(MOVLMI(TheAsm, b, d, <<120, 86, 52, 18>>))
         /\ last' = [fn |-> "emitrm_imm32", b |-> b, d |-> d]
    /\ UNCHANGED << confVars, exitVars, execVars >>

NextCursor == EmitOp \/ EmitTarget64 \/ EmitRmImm32

SpecCursor == InitCursor /\ [][NextCursor]_vars

\* The addresses whose byte a step writes for the first time or changes.
Written == {x \in DOMAIN mem' : x \notin DOMAIN mem \/ mem'[x] # mem[x]}

\* The step breaks to a new chunk: that chunk's topmost instruction is a
\* jump to pc, the cursor as it was at the break.
BridgesTo(pc) ==
    \E i \in (Len(log) + 1)..(Len(log') - 1) :
       /\ log'[i].mn = "newpage"
       /\ log'[i].t = pc
       /\ LET j == log'[i + 1]
          IN /\ j.mn \in {"JMP8", "JMP32", "JMP64"}
             /\ j.rip = codeEnd'
             /\ j.t = pc
             /\ j.mn = "JMP64" => /\ j.imm = pc
                                  /\ \A k \in 0..7 :
                                       Load(mem', PSub(j.rip, 8), k) = pc[k + 1]
             /\ j.mn = "JMP32" => WAdd(j.rip, SignExt(j.imm, 8)) = pc
             /\ j.mn = "JMP8" => WAdd(j.rip, SignExt(j.imm, 8)) = pc

\* C12: every byte an emission writes lies in one chunk, the current one
\* after the step, at or above its codeStart: the opcode word, the
\* displacement, the immediate and the 8-byte target of one instruction are
\* never split over two chunks, and nothing is written below codeStart.
\* When the room does not suffice the new chunk begins (at its top) with a
\* jump to the cursor of the break, and that instruction's bytes follow it
\* downwards without a gap.
C12_WritesInsideChunk ==
    [][/\ \A x \in Written : ~WLessU(x, codeStart') /\ WLessU(x, codeEnd')
       /\ ~WLessU(_nIns', codeStart')
       /\ nChunks' # nChunks =>
             /\ BridgesTo(_nIns)
             /\ \A x \in DOMAIN mem' :
                   (~WLessU(x, _nIns') /\ WLessU(x, codeEnd')) => x \in Written
       /\ nChunks' = nChunks =>
             /\ \A x \in Written : WLessU(x, _nIns)
             /\ \A k \in 1..16 :
                   ~WLessU(PSub(_nIns, k), _nIns') =>
                      PSub(_nIns, k) \in DOMAIN mem']_vars

\* A MOVLMI emitted with 12 bytes of room: it went whole to the next chunk.
C12_Witness ==
    /\ last.fn = "emitrm_imm32"
    /\ nChunks = 2
    /\ Len(log) = 3
    /\ log[1].t = PAdd(pool[1], 12)
    /\ log[3].mn = "MOVLMI"

\* C14: emit(op) leaves the cursor exactly oplen(op) below the cursor that
\* underrunProtect(8) returns, writes the eight bytes of op just below that
\* cursor and no other byte, and leaves every byte written before at or
\* above the cursor of its call as it was.
C14_EmitFrame ==
    [][last'.fn = "emit" =>
         LET c == underrunProtect(TheAsm, 8)
         IN /\ _nIns' = PSub(c.nIns, oplen(last'.op))
            /\ \A k \in 1..8 : Load(mem', PSub(c.nIns, 8), k - 1) = last'.op[k]
            /\ \A x \in DOMAIN mem' :
                  (x \notin DOMAIN c.mem \/ mem'[x] # c.mem[x]) =>
                     \E k \in 1..8 : x = PSub(c.nIns, k)
            /\ \A x \in DOMAIN mem :
                  ~WLessU(x, _nIns) => mem'[x] = mem[x]]_vars

\* A 6-byte emit after a 2-byte one: its eight bytes overlap the unused low
\* bytes of the word written before.
C14_Witness ==
    /\ last.fn = "emit"
    /\ last.op = X64_jmpi
    /\ Len(log) = 2
    /\ log[1].mn = "emit"
    /\ log[2].at = PSub(log[1].at, 6)
    /\ nChunks = 1

---------------------------------------------------------------------------
(* SpecProtect: underrunProtect(bytes) called at every cursor position of  *)
(* a chunk                                                                 *)

\* The largest request tried; the largest the routines of the file make
\* is 38.
MaxUnderrun == 38

InitProtect ==
    /\ \E layout \in {"near", "mid", "far"}, used \in 0..ChunkSize :
          InitAsm(layout, used, FALSE)
    /\ _blindMask32 = <<239, 190, 173, 222>>
    /\ _blindMask64 = <<239, 190, 173, 222, 13, 240, 173, 186>>
    /\ blindSet = {}
    /\ regs0 = [r \in Regs |-> NULL]
    /\ regs = regs0
    /\ xi = 0

UnderrunProtect ==
    /\ last.fn = "init"
    /\ \E bytes \in 0..MaxUnderrun :
         /\ SetAsm(underrunProtect(TheAsm, bytes))
         /\ last' = [fn |-> "underrunProtect", bytes |-> bytes]
    /\ UNCHANGED << confVars, exitVars, execVars >>

SpecProtect == InitProtect /\ [][UnderrunProtect]_vars

\* C13 as stated: when underrunProtect(n) returns, n + 8 bytes remain
\* between codeStart and the cursor.
C13_RoomPlusMargin ==
    last.fn = "underrunProtect" =>
       ~WLessU(WSub(_nIns, codeStart), W(last.bytes + 8, 8))

\* C13 amended: when underrunProtect(n) returns, at least n bytes remain
\* between codeStart and the cursor, and no more is promised: with n or
\* more bytes of room the call changes nothing, with fewer it takes a new
\* chunk and emits the jump to the old cursor.  The 8 bytes of emit's write
\* are part of the n the callers ask for.
C13_RoomAsAsked ==
    [][last'.fn = "underrunProtect" =>
         /\ ~WLessU(WSub(_nIns', codeStart'), W(last'.bytes, 8))
         /\ ~WLessU(codeEnd', _nIns')
         /\ IF WLessU(WSub(_nIns, codeStart), W(last'.bytes, 8))
            THEN nChunks' = nChunks + 1 /\ BridgesTo(_nIns)
            ELSE UNCHANGED asmVars]_vars

\* underrunProtect(16) returned with exactly 16 bytes of room, in the chunk
\* it was called in.
C13_Witness ==
    /\ last.fn = "underrunProtect"
    /\ last.bytes = 16
    /\ nChunks = 1
    /\ _nIns = PAdd(codeStart, 16)

---------------------------------------------------------------------------
(* SpecSwap: emissions and swapCodeChunks in any order                     *)

\* The main stream a and the exit stream x (cursor, start, end) exchanged;
\* the exit stream gets its chunk at the first swap.
swapCodeChunks_cursorOnly(a, x) ==
    Then(IF x.nIns = NULL
         THEN Then(codeAlloc(a), LAMBDA c :
                [nIns |-> c.nIns, start |-> c.start, end |-> c.end,
                 nChunks |-> c.nChunks])
         ELSE [nIns |-> x.nIns, start |-> x.start, end |-> x.end,
               nChunks |-> a.nChunks],
         LAMBDA y :
      [a |-> [a EXCEPT !.nIns = y.nIns, !.nChunks = y.nChunks],
       x |-> [nIns |-> a.nIns, start |-> y.start, end |-> y.end]])
swapCodeChunks(a, x) ==
    Then(IF x.nIns = NULL
         THEN Then(codeAlloc(a), LAMBDA c :
                [nIns |-> c.nIns, start |-> c.start, end |-> c.end,
                 nChunks |-> c.nChunks])
         ELSE [nIns |-> x.nIns, start |-> x.start, end |-> x.end,
               nChunks |-> a.nChunks],
         LAMBDA y :
      [a |-> [a EXCEPT !.nIns = y.nIns, !.start = y.start, !.end = y.end,
                       !.nChunks = y.nChunks],
       x |-> [nIns |-> a.nIns, start |-> a.start, end |-> a.end]])

MaxSwaps == 3

\* The six values swapCodeChunks exchanges.
Streams == << _nIns, codeStart, codeEnd, _nExitIns, exitStart, exitEnd >>

SwapCodeChunks ==
    /\ xi < MaxSwaps
    /\ _nExitIns # NULL \/ nChunks < MaxChunks
    /\ LET s == swapCodeChunks(TheAsm, [nIns |-> _nExitIns,
                                        start |-> exitStart, end |-> exitEnd])
       IN /\ SetAsm(s.a)
          /\ _nExitIns' = s.x.nIns
          /\ exitStart' = s.x.start
          /\ exitEnd' = s.x.end
    /\ xi' = xi + 1
    /\ last' = [fn |-> "swapCodeChunks", before |-> Streams]
    /\ UNCHANGED << confVars, _epilogue, maxStkUsed, regs, regs0 >>

\* The pool holds MaxChunks chunks: no emission that would need one more.
NextSwap ==
    \/ (nChunks < MaxChunks \/ ~WLessU(PSub(_nIns, 16), codeStart))
          /\ EmitRmImm32
    \/ SwapCodeChunks

SpecSwap == InitCursor /\ [][NextSwap]_vars

\* C16, in every state: each stream's cursor lies between the start and
\* the end of that stream's own chunk (the exit stream once it has one).
\* At every swap: the three values of the main stream become those of the
\* exit stream and the other way round, in the one step; and a swap that
\* follows a swap made when the exit chunk existed restores all six.
C16_SwapKeepsStreams ==
    /\ [](/\ ~WLessU(_nIns, codeStart) /\ ~WLessU(codeEnd, _nIns)
          /\ PAdd(codeStart, ChunkSize) = codeEnd
          /\ _nExitIns # NULL =>
                /\ ~WLessU(_nExitIns, exitStart) /\ ~WLessU(exitEnd, _nExitIns)
                /\ PAdd(exitStart, ChunkSize) = exitEnd
                /\ exitStart # codeStart)
    /\ [][last'.fn = "swapCodeChunks" =>
            /\ << _nExitIns', exitStart', exitEnd' >>
                  = << _nIns, codeStart, codeEnd >>
            /\ _nExitIns # NULL =>
                  << _nIns', codeStart', codeEnd' >>
                     = << _nExitIns, exitStart, exitEnd >>
            /\ (last.fn = "swapCodeChunks" /\ last.before[4] # NULL) =>
                  Streams' = last.before]_vars

\* A swap made when the exit chunk existed, three chunks handed out, both
\* streams holding code.
C16_Witness ==
    /\ last.fn = "swapCodeChunks"
    /\ last.before[4] # NULL
    /\ Streams = << last.before[4], last.before[5], last.before[6],
                    last.before[1], last.before[2], last.before[3] >>
    /\ xi = 3
    /\ nChunks = 3
    /\ _nIns # codeEnd
    /\ _nExitIns # exitEnd

---------------------------------------------------------------------------
(* SpecPrologue: genPrologue, and the prologue run from a stack pointer    *)
(* that is 8 modulo 16                                                     *)

NJ_ALIGN_STACK == 16
alignUp(x, align) ==
    WAnd(WAdd(x, W(align - 1, Len(x))), WNot(W(align - 1, Len(x))))

\* A 4-byte word below 2^31 as a number.
Val(w) == w[1] + 256 * w[2] + 65536 * w[3] + 16777216 * w[4]

\* amt, in uint32_t arithmetic: the frame's bytes, padded so that they and
\* the two 8-byte words pushed before them make a multiple of 16.
stackAmt_noAlign(max_stk_used, stackSlotsNeeded) ==
    WAdd(W(max_stk_used, 4), W(stackSlotsNeeded * 4, 4))
stackAmt(max_stk_used, stackSlotsNeeded) ==
    LET stackNeeded == WAdd(W(max_stk_used, 4), W(stackSlotsNeeded * 4, 4))
        stackPushed == W(8 + 8, 4)
        aligned     == alignUp(WAdd(stackNeeded, stackPushed), NJ_ALIGN_STACK)
    IN WSub(aligned, stackPushed)

\* for (int32_t d = pageRounded; d > 0; d -= pageSize) MOVLMI(RBP, -d, 0)
RECURSIVE probes(_, _, _)
probes_one(a, d, pageSize) ==
    IF d > 0 THEN MOVLMI(a, 5, WNeg(W(d, 4)), Zero(4)) ELSE a
probes(a, d, pageSize) ==
    IF d > 0
    THEN probes(MOVLMI(a, 5, WNeg(W(d, 4)), Zero(4)), d - pageSize, pageSize)
    ELSE a

\* The instructions in emission order: the probes of the Windows build
\* (the one lowest in memory first), sub rsp, mov rbp rsp, push rbp.
\* pageSize is a power of two.
genPrologue(a, max_stk_used, stackSlotsNeeded, win64, pageSize) ==
    LET amt         == stackAmt(max_stk_used, stackSlotsNeeded)
        pageRounded == WAnd(amt, WNot(W(pageSize - 1, 4)))
        a1 == IF win64
              THEN probes(a, IF pageRounded[4] >= 128 THEN -1
                             ELSE Val(pageRounded), pageSize)
              ELSE a
        a2 == IF amt = Zero(4) THEN a1
              ELSE IF isS8(amt)
                   THEN asm_ins(a1, Ins("SUBQR8", "RSP", "none", Trunc(amt, 1), <<>>))
                   ELSE asm_ins(a1, Ins("SUBQRI", "RSP", "none", amt, <<>>))
        a3 == asm_ins(a2, MR("RBP", "RSP"))
    IN asm_ins(a3, Ins("PUSHR", "RBP", "none", <<>>, <<>>))

\* One instruction of the prologue on the stack registers; R.ran lists
\* the instructions run, with the address of the store for those that
\* store.  A jump from chunk to chunk changes no register.
ExecStack(i, R) ==
    CASE i.mn = "PUSHR" ->
           [R EXCEPT !.RSP = WSub(@, W(8, 8)),
                     !.ran = Append(@, [mn |-> "PUSHR",
                                        addr |-> WSub(R.RSP, W(8, 8))])]
      [] i.mn = "MOVLMI" /\ i.b = 5 ->
           [R EXCEPT !.ran = Append(@, [mn |-> "MOVLMI",
                                        addr |-> WAdd(R.RBP, SignExt(i.t, 8))])]
      [] i.mn \in {"MOVQR", "SUBQR8", "SUBQRI"} ->
           [Exec(i, R) EXCEPT !.ran = Append(@, [mn |-> i.mn, addr |-> <<>>])]
      [] OTHER -> R

MaxProbes == 4
StackTop == <<0, 0, 16, 0, 0, 0, 0, 0>>

\* genPrologue for a frame and a page size, and the stack pointer the
\* emitted code is entered with: 8 above a multiple of 16 (the return
\* address was pushed).
GenPrologue ==
    /\ last.fn = "init"
    /\ \E max_stk_used \in {0, 8, 32, 100, 4096}, slots \in {0, 1, 6, 30},
          win64 \in BOOLEAN, pageSize \in {32, 64, 4096},
          off \in {8, 24, 40, 56} :
         /\ Val(stackAmt(max_stk_used, slots)) \div pageSize <= MaxProbes
         /\ SetAsm(genPrologue(TheAsm, max_stk_used, slots, win64, pageSize))
         /\ last' = [fn |-> "genPrologue", win64 |-> win64,
                     pageSize |-> pageSize,
                     stackNeeded |-> max_stk_used + 4 * slots]
         /\ regs0' = [RSP |-> PAdd(StackTop, off), RBP |-> NULL, ran |-> <<>>]
         /\ regs' = regs0'
    /\ UNCHANGED << confVars, exitVars, xi >>

\* The emitted code runs, the last instruction emitted first.
RunPrologue ==
    /\ last.fn = "genPrologue"
    /\ xi < Len(log)
    /\ regs' = ExecStack(log[Len(log) - xi], regs)
    /\ xi' = xi + 1
    /\ UNCHANGED << asmVars, confVars, exitVars, last, regs0 >>

NextPrologue == GenPrologue \/ RunPrologue

SpecPrologue == InitCode /\ [][NextPrologue]_vars

\* The prologue has run to its end.
PrologueDone == last.fn = "genPrologue" /\ xi = Len(log)

\* The mnemonics run, the probes and the jumps between chunks left out.
FrameSetup == SelectSeq(regs.ran, LAMBDA e : e.mn # "MOVLMI")

\* C17: the prologue runs push rbp; mov rbp, rsp; sub rsp, amt (no sub
\* when amt is 0), the push storing at old RSP - 8; after it
\* RBP = old RSP - 8 and RSP = RBP - amt, with RSP a multiple of 16 and
\* amt at least max_stk_used + 4 bytes for each stack slot.
C17_PrologueFrame ==
    PrologueDone =>
       LET amt == WSub(regs.RBP, regs.RSP)
       IN /\ regs.RBP = PSub(regs0.RSP, 8)
          /\ ~WLessU(amt, W(last.stackNeeded, 8))
          /\ WLessU(amt, W(last.stackNeeded + 16, 8))
          /\ regs.RSP[1] % 16 = 0
          /\ Len(FrameSetup) = (IF amt = NULL THEN 2 ELSE 3)
          /\ FrameSetup[1] = [mn |-> "PUSHR", addr |-> regs.RBP]
          /\ FrameSetup[2].mn = "MOVQR"
          /\ amt # NULL => FrameSetup[3].mn \in {"SUBQR8", "SUBQRI"}

\* A frame of 224 bytes, reserved with a 32-bit immediate.
C17_Witness ==
    /\ PrologueDone
    /\ last.stackNeeded = 220
    /\ WSub(regs.RBP, regs.RSP) = W(224, 8)
    /\ FrameSetup[3].mn = "SUBQRI"

\* The addresses the probes stored to, in the order they ran.
Probed == SelectSeq(regs.ran, LAMBDA e : e.mn = "MOVLMI")

PageOf(x, pageSize) == WAnd(x, WNot(W(pageSize - 1, 8)))

\* The pages with a byte in [RSP, RBP), which is made of 16-byte blocks.
FramePages ==
    {PageOf(PAdd(regs.RSP, 16 * j), last.pageSize) :
        j \in 0..(Val(WSub(regs.RBP, regs.RSP)) \div 16 - 1)}

ProbesDescend ==
    \A k \in 1..(Len(Probed) - 1) : WLessU(Probed[k + 1].addr, Probed[k].addr)

\* C18 as stated: on Windows the probes run in order of decreasing address
\* and store into every page that has a byte in [RSP, RBP).
C18_EveryPageTouched ==
    (PrologueDone /\ last.win64) =>
       /\ ProbesDescend
       /\ \A p \in FramePages :
             \E k \in 1..Len(Probed) : PageOf(Probed[k].addr, last.pageSize) = p

\* C18 amended: on Windows the probes store at RBP - pageSize,
\* RBP - 2 * pageSize, ... down to RBP - (amt rounded down to a multiple of
\* pageSize), in that order, and so into every page that lies wholly in
\* [RSP, RBP).  A page the frame covers only in part gets a probe only when
\* one of these addresses falls into it: with amt < pageSize there is no
\* probe at all.
C18_WholePagesTouched ==
    (PrologueDone /\ last.win64) =>
       LET P == last.pageSize
           n == Len(Probed)
       IN /\ ProbesDescend
          /\ \A k \in 1..n : Probed[k].addr = PSub(regs.RBP, k * P)
          /\ ~WLessU(PSub(regs.RBP, n * P), regs.RSP)
          /\ WLessU(PSub(regs.RBP, (n + 1) * P), regs.RSP)
          /\ \A p \in FramePages :
                (~WLessU(p, regs.RSP) /\ ~WLessU(regs.RBP, PAdd(p, P))) =>
                   \E k \in 1..n : PageOf(Probed[k].addr, P) = p

\* Three probes, and the frame reaching into a fourth page below them.
C18_Witness ==
    /\ PrologueDone
    /\ last.win64
    /\ Len(Probed) = 3
    /\ \E p \in FramePages : \A k \in 1..3 : PageOf(Probed[k].addr, last.pageSize) # p

---------------------------------------------------------------------------
(* SpecCmov: asm_cmov for cmovi and cmovq, and its code run on operands    *)
(* around the signed and unsigned boundaries                               *)

\* The integer path of asm_cmov, the registers chosen: rr the result, rf
\* holding iffalse, rt holding iftrue (rr itself when iftrue has no
\* register), ra and rb for the comparison cond = condop(a, b).
asm_cmov_sameSense(a, op, condop, b, rr, rf, rt, ra, rb) ==
    LET a1 == asm_ins(a, Ins((IF op = "cmovi" THEN "CMOV" ELSE "CMOVQ")
                               \o ccOfCond(condop), rr, rf, <<>>, <<>>))
        a2 == IF rr # rt THEN asm_ins(a1, MR(rr, rt)) ELSE a1
    IN asm_cmpi(a2, condop \in {"eqq", "ltq", "gtq", "leq", "geq", "ltuq",
                                "gtuq", "leuq", "geuq"}, b, ra, rb)
asm_cmov(a, op, condop, b, rr, rf, rt, ra, rb) ==
    LET cc == CASE condop \in {"eqi", "eqq"}   -> "NE"
                [] condop \in {"lti", "ltq"}   -> "NL"
                [] condop \in {"gti", "gtq"}   -> "NG"
                [] condop \in {"lei", "leq"}   -> "NLE"
                [] condop \in {"gei", "geq"}   -> "NGE"
                [] condop \in {"ltui", "ltuq"} -> "NB"
                [] condop \in {"gtui", "gtuq"} -> "NA"
                [] condop \in {"leui", "leuq"} -> "NBE"
                [] condop \in {"geui", "geuq"} -> "NAE"
                [] OTHER -> "none"
        a1 == IF cc = "none" THEN NanoAssert(a, FALSE)
              ELSE asm_ins(a, Ins((IF op = "cmovi" THEN "CMOV" ELSE "CMOVQ")
                                    \o cc, rr, rf, <<>>, <<>>))
        a2 == IF rr # rt THEN asm_ins(a1, MR(rr, rt)) ELSE a1
    IN asm_cmpi(a2, condop \in {"eqq", "ltq", "gtq", "leq", "geq", "ltuq",
                                "gtuq", "leuq", "geuq"}, b, ra, rb)

\* x < y as signed numbers.
SLess(x, y) ==
    WLessU([x EXCEPT ![Len(x)] = (@ + 128) % 256],
           [y EXCEPT ![Len(y)] = (@ + 128) % 256])

\* EFLAGS after cmp x, y: ZF, CF and SF # OF.
CmpFlags(x, y) == [ZF |-> x = y, CF |-> WLessU(x, y), LT |-> SLess(x, y)]

\* The x86 condition cc on the flags f.
ccHolds(cc, f) ==
    CASE cc \in {"E"}          -> f.ZF
      [] cc \in {"NE"}         -> ~f.ZF
      [] cc \in {"L", "NGE"}   -> f.LT
      [] cc \in {"NL", "GE"}   -> ~f.LT
      [] cc \in {"G", "NLE"}   -> ~f.ZF /\ ~f.LT
      [] cc \in {"NG", "LE"}   -> f.ZF \/ f.LT
      [] cc \in {"B", "NAE"}   -> f.CF
      [] cc \in {"NB", "AE"}   -> ~f.CF
      [] cc \in {"A", "NBE"}   -> ~f.CF /\ ~f.ZF
      [] cc \in {"NA", "BE"}   -> f.CF \/ f.ZF

CCs == {"E", "NE", "L", "NGE", "NL", "GE", "G", "NLE", "NG", "LE",
        "B", "NAE", "NB", "AE", "A", "NBE", "NA", "BE"}

\* One instruction on registers and flags.  The compares set R.flags;
\* cmovcc reads them, and its 32-bit form zero-extends the destination
\* whether or not it moves; mov leaves the flags alone; the arithmetic
\* and logic instructions overwrite them.
ExecCC(i, R) ==
    CASE i.mn \in {"CMPQR", "CMPQR8", "CMPQRI"} ->
           [R EXCEPT !.flags =
               CmpFlags(R[i.r], IF i.mn = "CMPQR" THEN R[i.b]
                                ELSE SignExt(i.imm, 8))]
      [] i.mn \in {"CMPLR", "CMPLR8", "CMPLRI"} ->
           [R EXCEPT !.flags =
               CmpFlags(Lo32(R[i.r]), IF i.mn = "CMPLR" THEN Lo32(R[i.b])
                                      ELSE i.imm)]
      [] i.mn \in {"CMOVQ" \o c : c \in CCs} ->
           IF ccHolds(CHOOSE c \in CCs : i.mn = "CMOVQ" \o c, R.flags)
           THEN [R EXCEPT ![i.r] = R[i.b]] ELSE R
      [] i.mn \in {"CMOV" \o c : c \in CCs} ->
           IF ccHolds(CHOOSE c \in CCs : i.mn = "CMOV" \o c, R.flags)
           THEN [R EXCEPT ![i.r] = ZeroExt(Lo32(R[i.b]), 8)]
           ELSE [R EXCEPT ![i.r] = ZeroExt(Lo32(@), 8)]
      [] i.mn \in {"MOVQR", "MOVI", "MOVQI32", "MOVQI", "LEARIP"} -> Exec(i, R)
      [] OTHER -> [Exec(i, R) EXCEPT !.flags = "clobbered"]

\* Operand values around 0, the sign bit of 32 bits and the 32-bit limit.
CmpVals ==
    { Zero(8), <<1, 0, 0, 0, 0, 0, 0, 0>>,
      <<255, 255, 255, 255, 255, 255, 255, 255>>,
      <<0, 0, 0, 128, 0, 0, 0, 0>>, <<1, 0, 0, 0, 1, 0, 0, 0>> }

InitCmov ==
    /\ InitAsm("mid", 0, FALSE)
    /\ _blindMask32 = <<239, 190, 173, 222>>
    /\ _blindMask64 = <<239, 190, 173, 222, 13, 240, 173, 186>>
    /\ blindSet = {}
    /\ regs0 = [r \in Regs |-> NULL]
    /\ regs = regs0
    /\ xi = 0

\* asm_cmov with the comparison's operands in RAX and RCX (or the second
\* an immediate), iffalse in RBX, iftrue in RSI or nowhere yet, the result
\* in RDX.
AsmCmov ==
    /\ last.fn = "init"
    /\ \E op \in {"cmovi", "cmovq"}, condop \in IntConds \ {"eqf4"},
          va \in CmpVals, vb \in CmpVals, imm \in BOOLEAN,
          rt \in {"RDX", "RSI"} :
         LET q == condop \in {"eqq", "ltq", "gtq", "leq", "geq", "ltuq",
                              "gtuq", "leuq", "geuq"}
             b == IF ~imm THEN LOperand("val", <<>>, FALSE)
                  ELSE IF q THEN LOperand("immq", vb, FALSE)
                  ELSE LOperand("immi", Trunc(vb, 4), FALSE)
         IN /\ SetAsm(asm_cmov(TheAsm, op, condop, b, "RDX", "RBX", rt,
                               "RAX", "RCX"))
            /\ last' = [fn |-> "asm_cmov", op |-> op, condop |-> condop,
                        q |-> q, rt |-> rt, b |-> b]
            /\ regs0' = [RAX |-> va, RCX |-> vb,
                         RBX |-> <<34, 34, 34, 34, 34, 34, 34, 34>>,
                         RSI |-> <<17, 17, 17, 17, 17, 17, 17, 17>>,
                         RDX |-> <<17, 17, 17, 17, 17, 17, 17, 17>>,
                         flags |-> "unset"]
            /\ regs' = regs0'
    /\ UNCHANGED << confVars, exitVars, xi >>

\* The emitted code runs, the last instruction emitted first.
RunCmov ==
    /\ last.fn = "asm_cmov"
    /\ xi < Len(log)
    /\ regs' = ExecCC(log[Len(log) - xi], regs)
    /\ xi' = xi + 1
    /\ UNCHANGED << asmVars, confVars, exitVars, last, regs0 >>

NextCmov == AsmCmov \/ RunCmov

SpecCmov == InitCmov /\ [][NextCmov]_vars

\* What the LIR comparison condop says of x and y.
CondHolds(condop, x, y) ==
    LET q == condop \in {"eqq", "ltq", "gtq", "leq", "geq", "ltuq", "gtuq",
                         "leuq", "geuq"}
        u == IF q THEN x ELSE Lo32(x)
        v == IF q THEN y ELSE Lo32(y)
    IN CASE condop \in {"eqi", "eqq"}   -> u = v
         [] condop \in {"lti", "ltq"}   -> SLess(u, v)
         [] condop \in {"gti", "gtq"}   -> SLess(v, u)
         [] condop \in {"lei", "leq"}   -> ~SLess(v, u)
         [] condop \in {"gei", "geq"}   -> ~SLess(u, v)
         [] condop \in {"ltui", "ltuq"} -> WLessU(u, v)
         [] condop \in {"gtui", "gtuq"} -> WLessU(v, u)
         [] condop \in {"leui", "leuq"} -> ~WLessU(v, u)
         [] condop \in {"geui", "geuq"} -> ~WLessU(u, v)

\* The second operand of the comparison as the code sees it: RCX, or the
\* sign-extended 32-bit immediate.
CmpRhs ==
    IF isImm32(last.b) THEN SignExt(getImm32(last.b), 8) ELSE regs0.RCX

---------------------------------------------------------------------------
(* SpecRemat: asm_restore on every kind of instruction, against canRemat   *)

\* The instructions to restore: the frame allocation, the literals of the
\* five types tainted and not, sums of a register and a literal, and a
\* load.
RematIns ==
    {[op |-> op, b |-> b, lhsInBase |-> l] :
        op \in {"allocp", "ldi"}, b \in NonImm, l \in {FALSE}}
    \cup {[op |-> b.op, b |-> b, lhsInBase |-> FALSE] :
            b \in ImmI \cup ImmQ \cup ImmD
                  \cup {LOperand("immf", v, t) :
                          v \in {Zero(4), <<0, 0, 128, 63>>}, t \in BOOLEAN}
                  \cup {LOperand("immf4", v, t) :
                          v \in {Zero(16),
                                 <<0, 0, 128, 63, 0, 0, 0, 0>> \o Zero(8),
                                 <<0, 0, 128, 63, 0, 0, 128, 63>>
                                   \o <<0, 0, 128, 63, 0, 0, 128, 63>>},
                          t \in BOOLEAN}}
    \cup {[op |-> op, b |-> b, lhsInBase |-> l] :
            op \in {"addi"}, b \in ImmI \cup NonImm, l \in BOOLEAN}
    \cup {[op |-> op, b |-> b, lhsInBase |-> l] :
            op \in {"addq"}, b \in ImmQ \cup NonImm, l \in BOOLEAN}

\* Where the literal pool may keep a float4 literal: aligned and not,
\* within 2GB of the code and not.
PoolAddrs ==
    { <<0, 32, 0, 0, 1, 0, 0, 0>>, <<8, 32, 0, 0, 1, 0, 0, 0>>,
      <<0, 32, 0, 0, 1, 0, 0, 64>>, <<8, 32, 0, 0, 1, 0, 0, 64>> }

AsmRestoreIns ==
    /\ last.fn = "init"
    /\ \E ins \in RematIns :
         \E vaddr \in (IF ins.op = "immf4" THEN PoolAddrs ELSE {NULL}) :
            /\ SetAsm(asm_restore(TheAsm, ins, "RAX", "RDX", vaddr))
            /\ last' = [fn |-> "asm_restore", ins |-> ins, vaddr |-> vaddr]
    /\ UNCHANGED << confVars, exitVars, execVars >>

SpecRemat == InitSelect /\ [][AsmRestoreIns]_vars

\* asm_restore went to the spill slot: it emitted a load from the frame.
ReadsSpillSlot ==
    \E k \in 1..Len(log) :
       /\ log[k].b = "FP"
       /\ log[k].mn \in {"MOVSDRM", "MOVQRM", "MOVSSRM", "MOVUPSRM", "MOVLRM"}

\* C20: canRemat(ins) is true exactly when asm_restore(ins, r) brings the
\* value back without reading the spill slot.
C20_RematIffNoSpill ==
    last.fn = "asm_restore" => (canRemat(last.ins) <=> ~ReadsSpillSlot)

\* The instructions that leave EFLAGS alone: mov and movabs of an
\* immediate, lea, movd and movq from a general register to an XMM
\* register, and loads; and, for the log's sake, the start of a new chunk
\* and the jump that joins two chunks.
NoFlagsMn ==
    {"MOVI", "MOVQI32", "MOVQI", "LEARIP", "LEAQRM", "LEALRM", "MOVQXR",
     "MOVDXR", "MOVAPSRMRIP", "MOVUPSRMRIP", "MOVAPSRM", "MOVUPSRM",
     "MOVSDRM", "MOVQRM", "MOVSSRM", "MOVLRM", "newpage", "JMP32", "JMP64"}

\* C26: whatever the instruction, tainted or not, blindable or not,
\* asm_restore emits only instructions that leave EFLAGS alone, never an
\* xor, and reaches no assertion that the flags may be clobbered.
C26_RestoreKeepsFlags ==
    last.fn = "asm_restore" =>
       /\ \A k \in 1..Len(log) : log[k].mn \in NoFlagsMn
       /\ ~assertFailed

\* asm_restore of a tainted zero that the policy would blind, and of a
\* tainted float4 literal loaded through a register from a pool far away.
C26_Witness ==
    /\ last.fn = "asm_restore"
    /\ \/ /\ last.ins.op = "immf4" /\ last.ins.b.tainted
          /\ \E k \in 1..Len(log) : log[k].mn \in {"MOVAPSRM", "MOVUPSRM"}
          /\ \E k \in 1..Len(log) : log[k].mn = "MOVQI"
       \/ /\ last.ins.op \in {"immi", "immq"} /\ last.ins.b.tainted
          /\ shouldBlind(last.ins.b.val)
          /\ Len(log) > 0

---------------------------------------------------------------------------
(* SpecRel: relative jumps, calls and RIP-relative operands emitted near   *)
(* and far from their targets, with much and hardly any room in the chunk  *)

\* The base+disp32 operand packed into the opcode word; a mode-2 operand
\* whose displacement fits a byte shrinks to mode 1.
mod_disp32(a, op, r, b, d) ==
    LET a1 == NanoAssert(a, b % 8 # 4)
        rm == (r % 8) * 8 + (b % 8)
    IN IF op[4] \div 64 = 2 /\ isS8(d)
       THEN [a  |-> a1,
             op |-> <<oplen(op) - 3, 0, 0>> \o SubSeq(op, 1, 3)
                      \o <<64 + rm, Trunc(d, 1)[1]>>]
       ELSE [a  |-> a1,
             op |-> WOr(op, <<0, 0, 0, rm>> \o d)]

\* disp32 modrm form, the displacement inside the opcode word.
emitrm(a, op, r, d, b) ==
    Then(mod_disp32(a, op, r, b, d), LAMBDA x :
      Then(rexrb(x.a, x.op, r, b), LAMBDA y : emit(y.a, y.op)))

\* lea r, [rip+disp32]: 48 8D 05 disp32.
X64_learip == <<7, 72, 141, 5, 0, 0, 0, 0>>
LEARIP_rm(a, r, d, v) ==
    asm_output(emitrm(a, X64_learip, r, d, 0), "LEARIP", d, <<>>, v)

\* The displacement to addr64 from the cursor, written below the cursor,
\* then the opcode word.
emitxm_rel(a, op, r, addr64) ==
    Then(underrunProtect(a, 4 + 8), LAMBDA a1 :
      Then(Trunc(WSub(addr64, a1.nIns), 4), LAMBDA d :
        emitrr([a1 EXCEPT !.mem = Store(@, PSub(a1.nIns, 4), d),
                          !.nIns = PSub(@, 4)],
               op, r, 0)))

\* xorps r, [rip+disp32]: 40 0F 57 05, the displacement apart.
X64_xorpsm == <<4, 0, 0, 0, 64, 15, 87, 5>>
XORPSM(a, r, a64) ==
    asm_output(emitxm_rel(a, X64_xorpsm, r, a64), "XORPSM", <<>>, <<>>, a64)

\* JMP8 and JE8 to targets at both ends of the reach of an 8-bit
\* displacement and one byte beyond.
EmitTarget8 ==
    /\ Len(log) < MaxLog
    /\ \E mn \in {"JMP8", "JE8"},
          d \in {Zero(8), W(14, 8), W(127, 8), W(128, 8), WNeg(W(128, 8))} :
         /\ SetAsm(IF mn = "JMP8" THEN JMP8(TheAsm, 8, WAdd(_nIns, d))
                   ELSE J8(TheAsm, 8, "E", FALSE, WAdd(_nIns, d)))
         /\ last' = [fn |-> "emit_target8", target |-> WAdd(_nIns, d)]
    /\ UNCHANGED << confVars, exitVars, execVars >>

\* Addresses of data (a pool entry, a mask) around the code.
DataAddrs ==
    {WAdd(_nIns, d) : d \in {W(4096, 8), WNeg(W(4096, 8)),
                             <<255, 255, 255, 127, 0, 0, 0, 0>>}}

\* asm_neg_abs where it takes the RIP-relative form: the mask is not an
\* S32 value and isTargetWithinS32(mask) answers yes.
Xorpsm ==
    /\ Len(log) < MaxLog
    /\ \E r \in {0, 9}, mask \in DataAddrs :
         \E w \in {isTargetWithinS32(TheAsm, mask, 8)} :
            /\ ~isS32(mask)
            /\ w.ok
            /\ SetAsm(XORPSM(w.a, r, mask))
            /\ last' = [fn |-> "emitxm_rel", target |-> mask]
    /\ UNCHANGED << confVars, exitVars, execVars >>

\* asm_immq and asm_ptrarg where they take the RIP-relative lea: the value
\* is not an S32 and isTargetWithinS32(v) answers yes.
LeaRip ==
    /\ Len(log) < MaxLog
    /\ \E r \in {0, 9}, v \in DataAddrs :
         \E w \in {isTargetWithinS32(TheAsm, v, 8)} :
            /\ ~isS32(v)
            /\ w.ok
            /\ SetAsm(LEARIP_rm(w.a, r, Trunc(WSub(v, w.a.nIns), 4), v))
            /\ last' = [fn |-> "LEARIP", target |-> v]
    /\ UNCHANGED << confVars, exitVars, execVars >>

NextRel == EmitTarget8 \/ EmitTarget32 \/ Xorpsm \/ LeaRip

SpecRel == InitCursor /\ [][NextRel]_vars

\* The instruction whose first byte is at `at`, read from the code bytes:
\* its length and the width of the displacement that ends it.
RelAt(at) ==
    LET b0 == Load(mem, at, 0)
        b1 == Load(mem, at, 1)
        b2 == Load(mem, at, 2)
        rip(m) == m \in {5 + 8 * k : k \in 0..7}
    IN CASE b0 \in {232, 233}                      -> [len |-> 5, w |-> 4]
         [] b0 = 15 /\ b1 \in 128..143             -> [len |-> 6, w |-> 4]
         [] b0 = 235 \/ b0 \in 112..127            -> [len |-> 2, w |-> 1]
         [] b0 \in {72, 76} /\ b1 = 141 /\ rip(b2) -> [len |-> 7, w |-> 4]
         [] b0 = 15 /\ b1 = 87 /\ rip(b2)          -> [len |-> 7, w |-> 4]
         [] b0 \in 65..79 /\ b1 = 15 /\ b2 = 87
               /\ rip(Load(mem, at, 3))            -> [len |-> 8, w |-> 4]
         [] OTHER                                  -> [len |-> 0, w |-> 0]

\* The logged instructions that carry a displacement to a target.
RelIns ==
    {i \in 1..Len(log) :
        log[i].mn \notin {"newpage", "JMP64"} /\ log[i].t # NULL}

\* C21: while no error is recorded, every relative jump, branch and call
\* with a target and every RIP-relative operand in the code holds, sign
\* extended, the target address minus the address of the byte that follows
\* the instruction.
C21_DispFromNext ==
    (_err = "None" /\ ~assertFailed) =>
       \A i \in RelIns :
          LET e    == RelAt(log[i].at)
              next == PAdd(log[i].at, e.len)
          IN /\ e.len # 0
             /\ SignExt(Field(mem, PSub(next, e.w), e.w) \o <<>>, 8)
                  = WSub(log[i].t, next)

---------------------------------------------------------------------------
(* SpecExit: side exits assembled one after another, to fragments that     *)
(* exist and to fragments that do not exist yet                            *)

X64_ret   == <<1, 0, 0, 0, 0, 0, 0, 195>>       \* C3
X64_popr  == <<2, 0, 0, 0, 0, 0, 64, 88>>       \* 40 58+r
X64_movqr == <<3, 0, 0, 0, 0, 72, 139, 192>>    \* 48 8B C0+r,b

RET(a) == asm_output(emit(a, X64_ret), "RET", <<>>, <<>>, <<>>)
POPR(a, r) ==
    Then(asm_output(emitrr(a, X64_popr, 0, r), "POPR", <<>>, <<>>, <<>>),
         LAMBDA x : [x EXCEPT !.log[Len(x.log)].r = r])
MOVQR(a, l, r) ==
    Then(asm_output(emitrr(a, X64_movqr, l, r), "MOVQR", <<>>, <<>>, <<>>),
         LAMBDA x : [x EXCEPT !.log[Len(x.log)].r = l,
                              !.log[Len(x.log)].b = r])

\* ret, and before it pop rbp; the address of the pop is the epilogue.
genEpilogue(a) ==
    Then(POPR(RET(a), 5), LAMBDA x : [a |-> x, ret |-> x.nIns])

\* fragEntry is NULL when the exit's fragment has no entry yet; rec is the
\* address of the guard record.  The result is the assembler, _epilogue,
\* the GuardRecord* handed to RAX and the value stored in its jmp field.
nFragExit(a, epilogue, fragEntry, rec) ==
    IF fragEntry # NULL
    THEN [a        |-> asm_immq(MOVQR(JMP(a, fragEntry), 4, 5),
                                "RAX", Zero(8), TRUE, FALSE, "RCX"),
          epilogue |-> epilogue, lr |-> Zero(8), jmp |-> NULL]
    ELSE Then(IF epilogue = NULL THEN genEpilogue(a)
              ELSE [a |-> a, ret |-> epilogue], LAMBDA e :
           Then(JMPl(e.a, e.ret), LAMBDA j :
             [a        |-> asm_immq(MOVQR(j, 4, 5),
                                    "RAX", rec, TRUE, FALSE, "RCX"),
              epilogue |-> e.ret, lr |-> rec, jmp |-> j.nIns]))

MaxExits == 3

\* Guard records in the low 4G, near the code and far from it.
GuardRecords ==
    {<<64, 0, 1, 0, 0, 0, 0, 0>>, <<64, 0, 16, 0, 1, 0, 0, 0>>,
     <<64, 0, 0, 0, 0, 112, 0, 0>>}

\* One more side exit; none that could need more chunks than the pool has.
NFragExit ==
    /\ xi < MaxExits
    /\ nChunks < MaxChunks \/ ~WLessU(PSub(_nIns, 38), codeStart)
    /\ \E fragEntry \in {NULL, ChunkBase}, rec \in GuardRecords :
         \E x \in {nFragExit(TheAsm, _epilogue, fragEntry, rec)} :
            /\ SetAsm(x.a)
            /\ _epilogue' = x.epilogue
            /\ last' = [fn |-> "nFragExit", destKnown |-> fragEntry # NULL,
                        lr |-> x.lr, jmp |-> x.jmp, n0 |-> Len(log),
                        epilogue0 |-> _epilogue]
    /\ xi' = xi + 1
    /\ UNCHANGED << confVars, _nExitIns, exitStart, exitEnd, maxStkUsed,
                    regs, regs0 >>

SpecExit == InitBranch /\ [][NFragExit]_vars

\* The records the last call logged itself, latest first (the order in
\* which the instructions run): not the page-break records and not the
\* jumps that bridge the chunks.
RECURSIVE OwnRun(_)
OwnRun(k) ==
    IF k <= last.n0 THEN <<>>
    ELSE IF log[k].mn = "newpage" \/ (k > 1 /\ log[k - 1].mn = "newpage")
    THEN OwnRun(k - 1)
    ELSE <<log[k]>> \o OwnRun(k - 1)

\* Where the jump at patch goes, read from the code bytes.
JumpsTo(patch) ==
    CASE patchForm(mem, patch) = "jmp32" ->
           WAdd(PAdd(patch, 5), SignExt(Field(mem, PAdd(patch, 1), 4) \o <<>>, 8))
      [] patchForm(mem, patch) = "jmp64" -> Field(mem, PAdd(patch, 6), 8) \o <<>>
      [] OTHER -> NULL

\* RAX after the instructions of run that write RAX, latest first in run.
RECURSIVE RaxAfter(_, _)
RaxAfter(run, R) ==
    IF run = <<>> THEN R
    ELSE RaxAfter(Tail(run), Exec(Head(run), R))

\* C22: for a side exit whose fragment has no entry yet, the jmp field of
\* the guard record holds the first byte of a jmp rel32 or a jmp [rip+0]
\* that goes to the epilogue; the epilogue (pop rbp, ret) is in the code
\* once, however many exits were assembled; and the exit runs as: RAX gets
\* the guard record's address, mov rsp, rbp, the jump.
C22_ExitPatchable ==
    (last.fn = "nFragExit" /\ ~last.destKnown) =>
       LET run  == OwnRun(Len(log))
           n    == Len(run)
           tail == IF last.epilogue0 = NULL THEN 2 ELSE 0
           j    == n - tail
       IN /\ patchForm(mem, last.jmp) \in {"jmp32", "jmp64"}
          /\ _epilogue # NULL
          /\ JumpsTo(last.jmp) = _epilogue
          /\ Load(mem, _epilogue, 0) = 93 /\ Load(mem, _epilogue, 1) = 195
          /\ Cardinality({k \in 1..Len(log) : log[k].mn = "RET"}) = 1
          /\ Cardinality({k \in 1..Len(log) : log[k].mn = "POPR"}) = 1
          /\ last.epilogue0 # NULL => _epilogue = last.epilogue0
          /\ j >= 3
          /\ run[j].mn \in {"JMP32", "JMP64"}
          /\ run[j].at = last.jmp /\ run[j].t = _epilogue
          /\ run[j - 1].mn = "MOVQR" /\ run[j - 1].r = 4 /\ run[j - 1].b = 5
          /\ \A k \in 1..(j - 2) : run[k].r = "RAX"
          /\ RaxAfter(SubSeq(run, 1, j - 2), [r \in Regs |-> NULL]).RAX
               = last.lr
          /\ tail = 2 => run[n - 1].mn = "POPR" /\ run[n].mn = "RET"

\* A third exit, the second to a fragment without an entry: it reuses the
\* epilogue, through a jmp rel32.
C22_Witness ==
    /\ last.fn = "nFragExit" /\ ~last.destKnown
    /\ xi = MaxExits
    /\ last.epilogue0 # NULL
    /\ patchForm(mem, last.jmp) = "jmp32"
    /\ last.jmp # PSub(_epilogue, 5)

---------------------------------------------------------------------------
(* SpecDiv: asm_div and asm_div_mod for every placement of the operands,   *)
(* and the emitted code run on positive and negative operands              *)

\* A 32-bit word as a signed number, and back.
SVal(w)  == IF w[4] >= 128 THEN 0 - Val(WNeg(w)) ELSE Val(w)
SWord(n) == IF n < 0 THEN WNeg(W(0 - n, 4)) ELSE W(n, 4)

\* Quotient and remainder of the signed division, rounding toward zero.
SQuot(x, y) ==
    LET ax == IF x < 0 THEN 0 - x ELSE x
        ay == IF y < 0 THEN 0 - y ELSE y
    IN IF (x < 0) = (y < 0) THEN ax \div ay ELSE 0 - (ax \div ay)
SRem(x, y) == x - SQuot(x, y) * y

\* One instruction of the division sequence on the registers.  idivl
\* divides EDX:EAX; the quotient is computed where EDX:EAX is the sign
\* extension of EAX and the divisor is not zero, any other dividend is
\* recorded in R.fault.
ExecDiv(i, R) ==
    CASE i.mn = "IDIV" ->
           LET sx == IF Lo32(R.RAX)[4] >= 128 THEN <<255, 255, 255, 255>>
                     ELSE Zero(4)
               x  == SVal(Lo32(R.RAX))
               y  == SVal(Lo32(R[i.r]))
           IN IF Lo32(R.RDX) # sx \/ y = 0 THEN [R EXCEPT !.fault = TRUE]
              ELSE [R EXCEPT !.RAX = ZeroExt(SWord(SQuot(x, y)), 8),
                             !.RDX = ZeroExt(SWord(SRem(x, y)), 8),
                             !.ran = Append(@, "IDIV")]
      [] i.mn = "SARI" /\ i.imm = <<31>> ->
           [R EXCEPT ![i.r] = ZeroExt(IF Lo32(@)[4] >= 128
                                      THEN <<255, 255, 255, 255>>
                                      ELSE Zero(4), 8)]
      [] OTHER -> Exec(i, R)

\* The registers of the placements.
DivRegs == {"RAX", "RCX", "RDX", "RBX"}

\* 7, -7 with the upper half clear and set, 100 and 0; 2, -2 and 3.
Dividends ==
    {W(7, 8), <<249, 255, 255, 255, 0, 0, 0, 0>>,
     <<249, 255, 255, 255, 1, 0, 0, 0>>, W(100, 8), Zero(8)}
Divisors == {W(2, 8), <<254, 255, 255, 255, 0, 0, 0, 0>>, W(3, 8)}

\* asm_div or asm_div_mod, the divisor in a register other than RAX and
\* RDX, the dividend in any register or in none (then RAX is where it will
\* be); both operands in one register when they are the same instruction.
AsmDiv ==
    /\ last.fn = "init"
    /\ \E fn \in {"asm_div", "asm_div_mod"}, rb \in DivRegs \ {"RAX", "RDX"},
          aReg \in DivRegs \cup {"none"}, va \in Dividends, vb \in Divisors :
         \E x \in {IF fn = "asm_div" THEN asm_div(TheAsm, rb, aReg)
                   ELSE asm_div_mod(TheAsm, rb, aReg)} :
            /\ SetAsm(x.a)
            /\ last' = [fn |-> fn, rb |-> rb, ra |-> x.ra, div |-> x.div,
                        mod |-> IF fn = "asm_div" THEN "none" ELSE x.mod]
            /\ regs0' = [r \in DivRegs |->
                           IF r = rb THEN vb
                           ELSE IF r = x.ra THEN va
                           ELSE <<17, 17, 17, 17, 17, 17, 17, 17>>]
                        @@ [fault |-> FALSE, ran |-> <<>>]
            /\ regs' = regs0'
    /\ UNCHANGED << confVars, exitVars, xi >>

\* The emitted code runs, the last instruction emitted first.
RunDiv ==
    /\ last.fn \in {"asm_div", "asm_div_mod"}
    /\ xi < Len(log)
    /\ regs' = ExecDiv(log[Len(log) - xi], regs)
    /\ xi' = xi + 1
    /\ UNCHANGED << asmVars, confVars, exitVars, last, regs0 >>

NextDiv == AsmDiv \/ RunDiv

SpecDiv == InitCmov /\ [][NextDiv]_vars

\* C23: asm_div and asm_div_mod emit one idiv, by a register other than
\* RAX and RDX; the code runs as: the dividend copied into RAX unless it is
\* there, RDX set to the sign extension of EAX, idiv; the quotient of the
\* operands is in RAX, the register of the div, and their remainder in
\* RDX, the register of the mod when a mod consumes the div.
C23_OneIdiv ==
    (last.fn \in {"asm_div", "asm_div_mod"} /\ xi = Len(log)) =>
       LET x == SVal(Lo32(regs0[last.ra]))
           y == SVal(Lo32(regs0[last.rb]))
       IN /\ Cardinality({k \in 1..Len(log) : log[k].mn = "IDIV"}) = 1
          /\ log[1].mn = "IDIV" /\ log[1].r \notin {"RAX", "RDX"}
          /\ log[2] = Ins("SARI", "RDX", "none", <<31>>, <<>>)
                        @@ [t |-> <<>>, at |-> <<>>]
          /\ log[3].mn = "MOVQR" /\ log[3].r = "RDX" /\ log[3].b = "RAX"
          /\ Len(log) = (IF last.ra = "RAX" THEN 3 ELSE 4)
          /\ last.ra # "RAX" =>
                log[4].mn = "MOVQR" /\ log[4].r = "RAX" /\ log[4].b = last.ra
          /\ ~regs.fault /\ regs.ran = <<"IDIV">>
          /\ last.div = "RAX" /\ Lo32(regs.RAX) = SWord(SQuot(x, y))
          /\ last.mod \in {"none", "RDX"}
          /\ Lo32(regs.RDX) = SWord(SRem(x, y))

\* asm_div_mod on -7 (upper half of its register set) in RBX and -2 in
\* RCX: quotient 3 in RAX, remainder -1 in RDX.
C23_Witness ==
    /\ last.fn = "asm_div_mod" /\ xi = Len(log) /\ Len(log) = 4
    /\ last.ra = "RBX" /\ last.rb = "RCX" /\ last.mod = "RDX"
    /\ regs0.RBX = <<249, 255, 255, 255, 1, 0, 0, 0>>
    /\ regs0.RCX = <<254, 255, 255, 255, 0, 0, 0, 0>>
    /\ regs.RAX = W(3, 8)
    /\ regs.RDX = <<255, 255, 255, 255, 0, 0, 0, 0>>

---------------------------------------------------------------------------
(* SpecAddImm: a 32-bit operation on the first System V argument and an    *)
(* untainted immediate, and the emitted code run                           *)

\* asm_arith on op(paramArg 0, immI): the left operand in RDI (argRegs[0]
\* of the System V build), the result in RAX or in RDI itself.
AsmArithImm ==
    /\ last.fn = "init"
    /\ \E op \in Ops32, rr \in {"RAX", "RDI"},
          imm \in {W(256, 4), W(128, 4), <<255, 255, 255, 127>>,
                   <<0, 255, 255, 255>>},
          va \in {W(5, 8), <<0, 255, 255, 255, 0, 0, 0, 0>>,
                  <<255, 255, 255, 255, 1, 0, 0, 0>>} :
         /\ SetAsm(asm_arith(TheAsm, op, LOperand("immi", imm, FALSE),
                             rr, "RDI", "none"))
         /\ last' = [fn |-> "asm_arith", op |-> op, imm |-> imm, rr |-> rr,
                     ra |-> "RDI"]
         /\ regs0' = [RAX |-> <<17, 17, 17, 17, 17, 17, 17, 17>>, RDI |-> va]
         /\ regs' = regs0'
    /\ UNCHANGED << confVars, exitVars, xi >>

\* The emitted code runs, the last instruction emitted first.
RunArithImm ==
    /\ last.fn = "asm_arith"
    /\ xi < Len(log)
    /\ regs' = Exec(log[Len(log) - xi], regs)
    /\ xi' = xi + 1
    /\ UNCHANGED << asmVars, confVars, exitVars, last, regs0 >>

NextAddImm == AsmArithImm \/ RunArithImm

SpecAddImm == InitCmov /\ [][NextAddImm]_vars

\* addi(paramArg 0, immI 0x100) with the result in RAX.
AddImmCase ==
    /\ last.fn = "asm_arith" /\ last.op = "addi" /\ last.imm = W(256, 4)
    /\ last.rr = "RAX" /\ last.ra = "RDI"

\* C24 as stated: addi(paramArg 0, immI 0x100) with the result in RAX is
\* emitted as a lea of RDI plus the immediate into RDI, then a mov of RDI
\* into RAX.
C24_LeaThenMov ==
    AddImmCase =>
       /\ Len(log) = 2
       /\ log[2].mn \in {"LEALRM", "LEAQRM"}
       /\ log[2].r = "RDI" /\ log[2].b = "RDI" /\ log[2].imm = W(256, 4)
       /\ log[1].mn \in {"MOVLR", "MOVQR"}
       /\ log[1].r = "RAX" /\ log[1].b = "RDI"

\* C24: addi(paramArg 0, immI 0x100) with the result in RAX is emitted as
\* ADDLRI(RAX, 0x100) and then MR(RAX, RDI), which run as mov rax, rdi;
\* add eax, 0x100: no lea; RAX ends as the zero-extended 32-bit sum and RDI
\* keeps the left operand.
C24_MovThenAdd ==
    AddImmCase =>
       /\ Len(log) = 2
       /\ log[1].mn = "ADDLRI" /\ log[1].r = "RAX"
       /\ log[1].imm = W(256, 4)
       /\ log[2].mn = "MOVQR" /\ log[2].r = "RAX" /\ log[2].b = "RDI"
       /\ xi = Len(log) =>
             /\ regs.RAX = ZeroExt(WAdd(Lo32(regs0.RDI), W(256, 4)), 8)
             /\ regs.RDI = regs0.RDI

\* 0xFFFFFF00 + 0x100 wraps to 0 in RAX.
C24_Witness ==
    /\ AddImmCase /\ xi = Len(log)
    /\ regs0.RDI = <<0, 255, 255, 255, 0, 0, 0, 0>>
    /\ regs.RAX = Zero(8)

---------------------------------------------------------------------------
(* SpecCall: the argument set-up of asm_call for call signatures of both   *)
(* builds, one call after another                                          *)

MAXARGS == 8
MaxCalls == 2

\* RegAlloc::argRegs and NumArgRegs of the two builds; a register is its
\* class and number.
Gp(n)  == [cls |-> "gp", n |-> n]
Xmm(n) == [cls |-> "xmm", n |-> n]
argRegs_shared(win64) ==
    IF win64 THEN <<Gp(1), Gp(2), Gp(8), Gp(9)>>
    ELSE <<Gp(7), Gp(6), Gp(2), Gp(2), Gp(8), Gp(9)>>
argRegs(win64) ==
    IF win64 THEN <<Gp(1), Gp(2), Gp(8), Gp(9)>>
    ELSE <<Gp(7), Gp(6), Gp(2), Gp(1), Gp(8), Gp(9)>>
NumArgRegs(win64) == Len(argRegs(win64))

\* The loop over the arguments, from the last of argTypes down: the calls
\* of asm_regarg, asm_ptrarg and asm_stkarg it makes, each with the
\* argument's index and type and the location handed to it, and stk_used
\* at the end.
RECURSIVE argLoop(_, _, _, _, _, _, _)
argLoop(argTypes, argc, i, win64, arg_index, fr, stk_used) ==
    IF i >= argc THEN [locs |-> <<>>, stk_used |-> stk_used]
    ELSE
      LET j  == argc - i - 1
          ty == argTypes[j + 1]
          to(fn, loc, rest) ==
              [rest EXCEPT !.locs = <<[fn |-> fn, j |-> j, ty |-> ty,
                                       loc |-> loc]>> \o @]
      IN IF ty \in {"I", "UI", "Q"} /\ arg_index < NumArgRegs(win64)
         THEN to("asm_regarg", argRegs(win64)[arg_index + 1],
                 argLoop(argTypes, argc, i + 1, win64, arg_index + 1, fr,
                         stk_used))
         ELSE IF win64 /\ ty \in {"D", "F"} /\ arg_index < NumArgRegs(win64)
         THEN to("asm_regarg", Xmm(arg_index),
                 argLoop(argTypes, argc, i + 1, win64, arg_index + 1, fr,
                         stk_used))
         ELSE IF win64 /\ ty = "F4" /\ arg_index < NumArgRegs(win64)
         THEN to("asm_ptrarg", argRegs(win64)[arg_index + 1],
                 argLoop(argTypes, argc, i + 1, win64, arg_index + 1, fr,
                         stk_used))
         ELSE IF ~win64 /\ ty \in {"D", "F", "F4"} /\ fr < 8
         THEN to("asm_regarg", Xmm(fr),
                 argLoop(argTypes, argc, i + 1, win64, arg_index, fr + 1,
                         stk_used))
         ELSE to("asm_stkarg", [cls |-> "stk", n |-> stk_used],
                 argLoop(argTypes, argc, i + 1, win64, arg_index, fr,
                         stk_used + 8))

\* The argument set-up of asm_call: for an indirect call the last argument
\* is the address and goes to RAX; the rest go through the loop.  The
\* result is the locations, stk_used and the new max_stk_used.
asm_call_args(argTypes, indirect, win64, maxStk) ==
    LET argc == IF indirect THEN Len(argTypes) - 1 ELSE Len(argTypes)
        addr == IF indirect
                THEN <<[fn |-> "asm_regarg", j |-> argc, ty |-> "P",
                        loc |-> Gp(0)]>>
                ELSE <<>>
        l    == argLoop(argTypes, argc, 0, win64, 0, 0,
                        IF win64 THEN 32 ELSE 0)
    IN [locs |-> addr \o l.locs, stk_used |-> l.stk_used,
        max_stk_used |-> IF l.stk_used > maxStk THEN l.stk_used ELSE maxStk]

ArgTypes == {"I", "UI", "Q", "D", "F", "F4"}

\* Every signature of up to three arguments of int, double and float4,
\* and signatures of 5, 7 and MAXARGS arguments of one type or of two
\* types in turn.
RECURSIVE SeqsUpTo(_, _)
SeqsUpTo(S, n) ==
    IF n = 0 THEN {<<>>}
    ELSE LET shorter == SeqsUpTo(S, n - 1)
         IN shorter \cup {Append(s, x) : s \in shorter, x \in S}
Signatures ==
    SeqsUpTo({"I", "D", "F4"}, 3)
    \cup {Bytes([k \in 1..n |-> IF k % 2 = 0 THEN s ELSE t]) :
            s \in ArgTypes, t \in ArgTypes, n \in {5, 7, MAXARGS}}

\* One more call assembled; the build is the same for every call.
AsmCallArgs ==
    /\ xi < MaxCalls
    /\ \E win64 \in BOOLEAN, indirect \in BOOLEAN, argTypes \in Signatures :
         /\ IF last.fn = "init" THEN TRUE ELSE last.win64 = win64
         /\ indirect => argTypes # <<>> /\ argTypes[Len(argTypes)] = "Q"
         /\ \E x \in {asm_call_args(argTypes, indirect, win64, maxStkUsed)} :
              /\ maxStkUsed' = x.max_stk_used
              /\ last' = [fn |-> "asm_call", win64 |-> win64,
                          indirect |-> indirect, argTypes |-> argTypes,
                          locs |-> x.locs, stk_used |-> x.stk_used,
                          max0 |-> maxStkUsed]
    /\ xi' = xi + 1
    /\ UNCHANGED << asmVars, confVars, _nExitIns, exitStart, exitEnd,
                    _epilogue, regs, regs0 >>

SpecCall == InitCmov /\ [][AsmCallArgs]_vars

\* The locations of the arguments that went through the loop, in the
\* order of the loop.
LoopLocs == SelectSeq(last.locs, LAMBDA l : l.ty # "P")

\* The arguments before position p of the loop that meet the test.
Before(p, Test(_)) == Cardinality({q \in 1..(p - 1) : Test(LoopLocs[q])})
IsInt(l) == l.ty \in {"I", "UI", "Q"}
IsFlt(l) == l.ty \in {"D", "F", "F4"}
OnStack(l) == l.loc.cls = "stk"

\* C25: each argument of a call has one location and no two share one; on
\* System V the integer arguments take RDI, RSI, RDX, RCX, R8, R9 in the
\* order of the loop and the float, double and float4 arguments XMM0 to
\* XMM7, each class counted apart; on Windows the first four arguments
\* take the register of their position, RCX, RDX, R8, R9 for an integer or
\* a float4 pointer and XMM0 to XMM3 for a float or double, and the stack
\* slots start at 32; the arguments left over take consecutive 8-byte
\* slots; max_stk_used is at least the stack bytes of this call and of
\* the calls before.
C25_ArgsApart ==
    last.fn = "asm_call" =>
       LET n    == Len(last.locs)
           m    == Len(LoopLocs)
           base == IF last.win64 THEN 32 ELSE 0
           SysV == <<Gp(7), Gp(6), Gp(2), Gp(1), Gp(8), Gp(9)>>
           Win  == <<Gp(1), Gp(2), Gp(8), Gp(9)>>
       IN /\ n = Len(last.argTypes)
          /\ {last.locs[k].j : k \in 1..n} = 0..(n - 1)
          /\ \A k \in 1..n : k > 1 \/ ~last.indirect =>
                last.locs[k].ty = last.argTypes[last.locs[k].j + 1]
          /\ \A k, q \in 1..n : k # q => last.locs[k].loc # last.locs[q].loc
          /\ last.indirect => last.locs[1].loc = Gp(0)
          /\ \A p \in 1..m :
                LET l == LoopLocs[p]
                    s == Before(p, OnStack)
                IN /\ OnStack(l) => l.loc.n = base + 8 * s
                   /\ ~last.win64 /\ IsInt(l) =>
                         IF Before(p, IsInt) < 6
                         THEN l.loc = SysV[Before(p, IsInt) + 1]
                         ELSE OnStack(l)
                   /\ ~last.win64 /\ IsFlt(l) =>
                         IF Before(p, IsFlt) < 8
                         THEN l.loc = Xmm(Before(p, IsFlt))
                         ELSE OnStack(l)
                   /\ last.win64 =>
                         IF p > 4 THEN OnStack(l)
                         ELSE IF l.ty \in {"D", "F"} THEN l.loc = Xmm(p - 1)
                         ELSE l.loc = Win[p]
          /\ last.stk_used = base + 8 * Before(m + 1, OnStack)
          /\ maxStkUsed >= last.stk_used
          /\ maxStkUsed >= last.max0

\* A System V call of eight arguments, int and double in turn, after a
\* call that needed more stack: none of the eight on the stack.
C25_Witness ==
    /\ last.fn = "asm_call" /\ ~last.win64 /\ ~last.indirect
    /\ Len(last.locs) = MAXARGS
    /\ \E p \in 1..MAXARGS : last.locs[p].loc = Xmm(3)
    /\ \E p \in 1..MAXARGS : last.locs[p].loc = Gp(1)
    /\ last.stk_used = 0
    /\ maxStkUsed = 16

---------------------------------------------------------------------------
(* Floating-point branches: the jumps asm_branchd_helper emits, run on the *)
(* flags that the ucomisd or ucomiss of asm_cmpd leaves                    *)

\* How the first operand of the comparison stands to the second.
FloatRels == {"unordered", "greater", "less", "equal"}

\* asm_cmpd turns a < b into b > a and a <= b into b >= a: whether the
\* operands of ucomisd are b, a.
cmpdSwaps_never(cond) == FALSE
cmpdSwaps(cond) == getCmpDOpcode(cond) \in {"ltd", "led"}

\* ZF, PF and CF after ucomisd ra, rb, by how ra stands to rb; OF and SF
\* are cleared.
UcomiFlags(rel) ==
    CASE rel = "unordered" -> [ZF |-> TRUE,  PF |-> TRUE,  CF |-> TRUE]
      [] rel = "greater"   -> [ZF |-> FALSE, PF |-> FALSE, CF |-> FALSE]
      [] rel = "less"      -> [ZF |-> FALSE, PF |-> FALSE, CF |-> TRUE]
      [] rel = "equal"     -> [ZF |-> TRUE,  PF |-> FALSE, CF |-> FALSE]

\* The flags asm_cmpd leaves for cond on operands a and b that stand as rel.
asm_cmpd(cond, rel) ==
    UcomiFlags(IF cmpdSwaps(cond)
               THEN (CASE rel = "less" -> "greater" [] rel = "greater" -> "less"
                       [] OTHER -> rel)
               ELSE rel)

\* What the comparison is worth; a NaN operand makes it false.
CmpHolds(cond, rel) ==
    LET condop == getCmpDOpcode(cond)
    IN CASE condop = "eqd" -> rel = "equal"
         [] condop = "ltd" -> rel = "less"
         [] condop = "gtd" -> rel = "greater"
         [] condop = "led" -> rel \in {"less", "equal"}
         [] condop = "ged" -> rel \in {"greater", "equal"}

\* The condition of number cc, as the processor reads it from the flags.
CcHolds(cc, F) ==
    LET base == CASE cc \div 2 = 1 -> F.CF
                  [] cc \div 2 = 2 -> F.ZF
                  [] cc \div 2 = 3 -> F.CF \/ F.ZF
                  [] cc \div 2 = 5 -> F.PF
                  [] cc \div 2 = 7 -> F.ZF
                  [] OTHER -> FALSE
    IN IF cc % 2 = 1 THEN ~base ELSE base

\* The jump whose first byte is at pc, read from memory: its condition
\* number (16 when it has none), the address after it and where it goes.
JumpAt(m, pc) ==
    LET b0 == Load(m, pc, 0)
        b1 == Load(m, pc, 1)
        rel(n, len) ==
            WAdd(PAdd(pc, len), SignExt(Field(m, PAdd(pc, len - n), n) \o <<>>, 8))
    IN IF b0 = 235
       THEN [cc |-> 16, next |-> PAdd(pc, 2), dest |-> rel(1, 2)]
       ELSE IF b0 \in 112..127
       THEN [cc |-> b0 - 112, next |-> PAdd(pc, 2), dest |-> rel(1, 2)]
       ELSE IF b0 = 233
       THEN [cc |-> 16, next |-> PAdd(pc, 5), dest |-> rel(4, 5)]
       ELSE IF b0 = 15 /\ b1 \in 128..143
       THEN [cc |-> b1 - 128, next |-> PAdd(pc, 6), dest |-> rel(4, 6)]
       ELSE IF b0 = 255 /\ b1 = 37 /\ Field(m, PAdd(pc, 2), 4) \o <<>> = Zero(4)
       THEN [cc |-> 16, next |-> PAdd(pc, 14),
             dest |-> Field(m, PAdd(pc, 6), 8) \o <<>>]
       ELSE [cc |-> 17, next |-> pc, dest |-> pc]

\* The addresses of the instructions emitted.
Starts == {log[i].at : i \in {k \in 1..Len(log) : log[k].mn # "newpage"}}

\* Where the processor leaves the emitted jumps when it enters them at pc
\* with flags F: the first address that is not one of the jumps.
MaxJumps == 8
RECURSIVE RunJumps(_, _, _)
RunJumps(pc, F, fuel) ==
    IF fuel = 0 \/ pc \notin Starts THEN pc
    ELSE LET j == JumpAt(mem, pc)
         IN IF j.cc = 17 THEN pc
            ELSE RunJumps(IF j.cc = 16 \/ CcHolds(j.cc, F) THEN j.dest
                          ELSE j.next, F, fuel - 1)

FloatBranchCase ==
    /\ last.fn = "asm_branch_helper"
    /\ last.cond \in FloatConds
    /\ _err = "None"

\* C27: however the operands stand, the jumps of asm_branchd_helper, run
\* on the flags of asm_cmpd, arrive at the target when the comparison is
\* worth the opposite of onFalse and at the code that follows when not;
\* unordered operands make the comparison false.
C27_FloatBranchSense ==
    FloatBranchCase =>
       \A rel \in FloatRels :
          RunJumps(_nIns, asm_cmpd(last.cond, rel), MaxJumps)
             = IF CmpHolds(last.cond, rel) # last.onFalse
               THEN last.target ELSE last.n0

\* A branch on a false equality to a target out of rel32 reach: two 64-bit
\* jumps and two 8-bit jumps, and unordered operands take the branch.
C27_Witness ==
    /\ FloatBranchCase
    /\ last.cond = "eqd" /\ last.onFalse
    /\ last.target \notin {NULL, last.n0}
    /\ Cardinality({i \in OwnIdx : Jmp64At(i)}) = 2
    /\ Cardinality({i \in OwnIdx : Rel8At(i)}) = 2
    /\ RunJumps(_nIns, asm_cmpd("eqd", "unordered"), MaxJumps) = last.target
    /\ RunJumps(_nIns, asm_cmpd("eqd", "equal"), MaxJumps) = last.n0

---------------------------------------------------------------------------
(* SpecCondd: asm_condd on every floating comparison, and the emitted      *)
(* bytes run on the flags of the comparison                                *)

\* [rex][opcode][mod-rr] with byte operands: the rex prefix stays when b is
\* RSP, RBP, RSI or RDI, so that the byte named is the low byte.
rexrb8(op, r, b) ==
    LET at  == 9 - oplen(op)
        rex == WOr(<<op[at]>>, <<(r \div 8) * 4 + (b \div 8)>>)[1]
    IN IF WOr(<<rex>>, <<(b \div 4) * 4>>)[1] # 64
       THEN [op EXCEPT ![at] = rex]
       ELSE [op EXCEPT ![1] = @ - 1]

emitrr8(a, op, r, b) == emit(a, rexrb8(mod_rr(op, r, b), r, b))

X64_movzx8 == <<4, 0, 0, 0, 64, 15, 182, 192>>   \* 40 0F B6 C0+r,b
X86_and8r  == <<2, 0, 0, 0, 0, 0, 34, 192>>      \* 22 C0+r,b
X86_setnp  == <<3, 0, 0, 0, 0, 15, 155, 192>>    \* 0F 9B C0+b
X86_sete   == <<3, 0, 0, 0, 0, 15, 148, 192>>    \* 0F 94 C0+b

MOVZX8(a, l, r) ==
    asm_output(emitrr8(a, X64_movzx8, l, r), "movzx", <<>>, <<>>, <<>>)
X86_AND8R(a, r) ==
    asm_output(emit(a, WOr(X86_and8r,
                           Zero(7) \o <<WOr(<<r * 8>>, WOr(<<r>>, <<4>>))[1]>>)),
               "andb", <<>>, <<>>, <<>>)
X86_SETNP(a, r) ==
    asm_output(emit(a, WOr(X86_setnp, Zero(7) \o <<WOr(<<r>>, <<4>>)[1]>>)),
               "setnp", <<>>, <<>>, <<>>)
X86_SETE(a, r) ==
    asm_output(emit(a, WOr(X86_sete, Zero(7) \o <<r>>)),
               "sete", <<>>, <<>>, <<>>)

\* The registers prepareResultReg may hand back for the comparison: RAX,
\* RCX, RDX or RBX for an equality, any general register but RSP otherwise.
condResultRegs_any(op) == (0..15) \ {4}
condResultRegs(op) ==
    IF getCmpDOpcode(op) = "eqd" THEN {0, 1, 2, 3} ELSE (0..15) \ {4}

\* asm_condd with the result in r, and the ucomisd or ucomiss of asm_cmpd
\* emitted last.
asm_condd(a, op, r) ==
    LET a1 == IF getCmpDOpcode(op) = "eqd"
              THEN X86_SETE(X86_SETNP(X86_AND8R(MOVZX8(a, r, r), r), r), r)
              ELSE Then(MOVZX8(a, r, r), LAMBDA x :
                     IF getCmpDOpcode(op) \in {"ltd", "gtd"}
                     THEN asm_ins(x, Ins("SETA", r, "none", <<>>, <<>>))
                     ELSE asm_ins(NanoAssert(x, getCmpDOpcode(op) \in {"led", "ged"}),
                                  Ins("SETAE", r, "none", <<>>, <<>>)))
    IN asm_ins(a1, Ins(IF op = getCmpDOpcode(op) THEN "UCOMISD" ELSE "UCOMISS",
                       IF cmpdSwaps(op) THEN "XMM1" ELSE "XMM0",
                       IF cmpdSwaps(op) THEN "XMM0" ELSE "XMM1", <<>>, <<>>))

AsmCondd ==
    /\ last.fn = "init"
    /\ \E op \in FloatConds :
         \E r \in condResultRegs(op) \cap ((0..3) \cup {6, 9}) :
            /\ SetAsm(asm_condd(TheAsm, op, r))
            /\ last' = [fn |-> "asm_condd", op |-> op, r |-> r, n0 |-> _nIns]
    /\ UNCHANGED << confVars, exitVars, execVars >>

SpecCondd == InitBranch /\ [][AsmCondd]_vars

\* The byte register of number n: without a rex prefix 4..7 name the second
\* byte of RAX, RCX, RDX, RBX; with one, n names the low byte of register
\* n, or of n + 8 when the prefix extends it.
ByteReg(n, rex, ext) ==
    IF rex < 0 /\ n >= 4 THEN [reg |-> n - 4, byte |-> 2]
    ELSE [reg |-> (IF rex >= 0 /\ (rex \div ext) % 2 = 1 THEN n + 8 ELSE n),
          byte |-> 1]

\* Runs the instruction at pc (movzx, and, setnp, sete between byte
\* registers, or a jump) on the registers S.regs and the flags S.ZF, S.PF;
\* S.pc is the address of the next one, S.ran the instructions so far.
ExecCondd(pc, S) ==
    LET b0  == Load(mem, pc, 0)
        rex == IF b0 \in 64..79 THEN b0 - 64 ELSE -1
        o   == IF rex >= 0 THEN 1 ELSE 0
        op0 == Load(mem, pc, o)
        op1 == Load(mem, pc, o + 1)
        two == op0 = 15
        mrm == Load(mem, pc, IF two THEN o + 2 ELSE o + 1)
        reg == ByteReg((mrm \div 8) % 8, rex, 4)
        rm  == ByteReg(mrm % 8, rex, 1)
        len == IF two THEN o + 3 ELSE o + 2
        val(x) == S.regs[x.reg][x.byte]
        put(x, v, nm) ==
            [S EXCEPT !.regs[x.reg][x.byte] = v, !.pc = PAdd(pc, len),
                      !.ran = Append(@, nm)]
        j   == JumpAt(mem, pc)
    IN IF j.cc = 16 THEN [S EXCEPT !.pc = j.dest]
       ELSE IF mrm \div 64 # 3 THEN [S EXCEPT !.pc = NULL, !.ran = Append(@, "?")]
       ELSE IF two /\ op1 = 148 THEN put(rm, IF S.ZF THEN 1 ELSE 0, "sete")
       ELSE IF two /\ op1 = 155 THEN put(rm, IF S.PF THEN 0 ELSE 1, "setnp")
       ELSE IF ~two /\ op0 = 34
       THEN LET v == BitAnd(val(reg), val(rm), 8)
                S1 == put(reg, v, "andb")
            IN [S1 EXCEPT !.ZF = (v = 0),
                          !.PF = Cardinality({k \in 0..7 :
                                     (v \div (2 ^ k)) % 2 = 1}) % 2 = 0]
       ELSE IF two /\ op1 = 182
       THEN [S EXCEPT !.regs[((mrm \div 8) % 8)
                                + (IF rex >= 0 /\ (rex \div 4) % 2 = 1
                                   THEN 8 ELSE 0)]
                         = <<val(rm)>> \o Zero(7),
                      !.pc = PAdd(pc, len), !.ran = Append(@, "movzx")]
       ELSE [S EXCEPT !.pc = NULL, !.ran = Append(@, "?")]

RECURSIVE RunCondd(_, _)
RunCondd(S, fuel) ==
    IF fuel = 0 \/ S.pc \notin Starts THEN S
    ELSE RunCondd(ExecCondd(S.pc, S), fuel - 1)

\* The registers and flags at the first emitted byte, after the ucomisd of
\* operands that stand as rel, every register holding g.
AfterCmpd(rel, g) ==
    [regs |-> [n \in 0..15 |-> g], pc |-> _nIns, ran |-> <<>>,
     ZF |-> asm_cmpd(last.op, rel).ZF, PF |-> asm_cmpd(last.op, rel).PF]

Garbage == {Zero(8), [k \in 1..8 |-> 255] \o <<>>, <<1, 1, 0, 0, 0, 0, 0, 1>>}

EqCase ==
    /\ last.fn = "asm_condd"
    /\ getCmpDOpcode(last.op) = "eqd"
    /\ _err = "None"

\* C28: the result of a floating equality is in RAX, RCX, RDX or RBX; after
\* the compare come sete on its low byte, setnp on its second byte, the and
\* of the low byte with the second, and movzx; the register ends as 1 when
\* ZF is set and PF clear (the operands equal) and as 0 otherwise, all
\* upper bits zero, whatever it and the others held.
C28_EqToBoolean ==
    EqCase =>
       /\ last.r \in {0, 1, 2, 3}
       /\ log[Len(log)].mn \in {"UCOMISD", "UCOMISS"}
       /\ \A rel \in FloatRels, g \in Garbage :
             LET S == RunCondd(AfterCmpd(rel, g), MaxJumps)
             IN /\ S.ran = <<"sete", "setnp", "andb", "movzx">>
                /\ S.pc = last.n0
                /\ S.regs[last.r] = (IF UcomiFlags(rel).ZF /\ ~UcomiFlags(rel).PF
                                     THEN <<1>> ELSE <<0>>) \o Zero(7)
                /\ \A n \in (0..15) \ {last.r} : S.regs[n] = g

\* An equality of floats with the result in RBX, the four instructions
\* split between two code chunks.
C28_Witness ==
    /\ EqCase /\ last.op = "eqf" /\ last.r = 3
    /\ nChunks > 1
    /\ RunCondd(AfterCmpd("equal", Zero(8)), MaxJumps).regs[3] = <<1>> \o Zero(7)
    /\ RunCondd(AfterCmpd("unordered", Zero(8)), MaxJumps).regs[3] = Zero(8)

---------------------------------------------------------------------------
(* SpecMem: one store or load, tainted or not, of a register or of an      *)
(* immediate, with the calls that fetch and release the base register      *)

MemOps ==
    {"sti", "sti2s", "sti2c", "stq", "std", "stf", "std2f", "stf4",
     "lduc2ui", "ldus2ui", "ldi", "ldc2i", "lds2i", "ldq", "ldd", "ldf",
     "ldf2d", "ldf4"}

\* The values op may store; a load has none.
StoredBy(op) ==
    CASE op \in {"sti", "sti2s", "sti2c"} -> ImmI \cup NonImm
      [] op = "stq" -> ImmQ \cup NonImm
      [] op \in {"std", "std2f"} -> ImmD \cup NonImm
      [] OTHER -> NonImm

\* The routine assembling op, with the value in RAX (or an XMM register).
asm_mem(a, op, value, tainted, force, rb, orb) ==
    CASE op \in {"sti", "sti2s", "sti2c"} ->
           asm_store32(a, op, value, tainted, force, "RAX", rb, orb)
      [] op \in {"stq", "std", "stf", "std2f"} ->
           asm_store64(a, op, value, tainted, force, "RAX", rb, orb)
      [] op = "stf4" -> asm_store128(a, op, value, tainted, force, rb, orb)
      [] op \in {"lduc2ui", "ldus2ui", "ldi", "ldc2i", "lds2i"} ->
           asm_load32(a, op, force, "RAX", rb, orb)
      [] op \in {"ldq", "ldd", "ldf", "ldf2d"} ->
           asm_load64(a, op, force, "RAX", rb, orb)
      [] op = "ldf4" -> asm_load128(a, op, force, rb, orb)

\* forceDisplacementBlinding answers as the policy has it, and never yes
\* for an access that is not tainted; the allocator hands back the base
\* register itself or a temporary.
AsmMem ==
    /\ last.fn = "init"
    /\ \E op \in MemOps, tainted \in BOOLEAN, force \in BOOLEAN,
          rb \in {"RCX", "RDX"} :
        \E value \in StoredBy(op) :
         /\ tainted \/ ~force
         /\ SetAsm(asm_mem(TheAsm, op, value, tainted, force, rb, "RCX"))
         /\ last' = [fn |-> "asm_mem", op |-> op, b |-> value,
                     tainted |-> tainted, force |-> force]
    /\ UNCHANGED << confVars, exitVars, execVars >>

SpecMem == InitSelect /\ [][AsmMem]_vars

\* The log records of the calls that fetch the base register, of the call
\* that releases it, and of the instruction that reaches memory.
GetIdx ==
    {i \in 1..Len(log) :
        log[i].mn \in {"getBaseRegWithBlinding", "getBaseReg2WithBlinding"}}
AdjustIdx == {i \in 1..Len(log) : log[i].mn = "adjustBaseRegForBlinding"}
MemIdx ==
    {i \in 1..Len(log) :
        log[i].mn \in {"MOVBMI", "MOVSMI", "MOVLMI", "MOVQMI", "MOVBMR",
                       "MOVSMR", "MOVLMR", "MOVQMR", "MOVSDMR", "MOVSSMR",
                       "MOVUPSMR", "MOVZX8M", "MOVZX16M", "MOVLRM", "MOVSX8M",
                       "MOVSX16M", "MOVQRM", "MOVSDRM", "MOVSSRM", "MOVUPSRM"}}

TaintedImmStore ==
    /\ last.fn = "asm_mem"
    /\ last.op \in {"sti", "sti2s", "sti2c", "stq"}
    /\ last.tainted
    /\ last.b.op \in {"immi", "immq"}

\* C29: a tainted store of an immediate by asm_store32 or by the stq case
\* of asm_store64 either stores from a register or fetches its base
\* register with blinding of the displacement forced; and every store and
\* load fetches its base register once, then emits the memory instruction,
\* then releases once the same base and original base registers.
C29_StoreBlindsOneOfTwo ==
    last.fn = "asm_mem" =>
       /\ TaintedImmStore =>
             \/ \E i \in MemIdx :
                   log[i].mn \in {"MOVBMR", "MOVSMR", "MOVLMR", "MOVQMR"}
             \/ \E i \in GetIdx : log[i].force
       /\ Cardinality(GetIdx) = 1
       /\ Cardinality(AdjustIdx) = 1
       /\ Cardinality(MemIdx) = 1
       /\ \A g \in GetIdx, m \in MemIdx, d \in AdjustIdx :
             /\ g < m /\ m < d
             /\ log[d].r = log[g].r /\ log[d].b = log[g].b
             /\ log[m].b = log[g].r \/ log[m].r = log[g].r

\* A tainted store of an immediate the policy does not blind, with no
\* blinding of displacements asked for: the immediate is in the
\* instruction and the blinding of the displacement is forced.
C29_Witness ==
    /\ TaintedImmStore
    /\ ~last.force
    /\ \E i \in MemIdx : log[i].mn = "MOVLMI" /\ log[i].imm = last.b.val
    /\ \E i \in GetIdx : log[i].force /\ log[i].r = "RDX" /\ log[i].b = "RCX"

---------------------------------------------------------------------------
(* asm_arith on a tainted immediate the policy selects (under SpecSelect)  *)

BlindableArith ==
    /\ last.fn = "asm_arith"
    /\ last.op \notin ShiftOps \cup {"divi", "modi"}
    /\ isImm32(last.b)
    /\ last.b.tainted
    /\ shouldBlind(getImm32(last.b))

\* asm_arith_imm_blind declined: the two-register form and nothing else.
TwoRegisterForm ==
    /\ Len(log) \in {1, 2}
    /\ log[1].mn = "RR_" \o last.op
    /\ Len(log) = 2 => log[2].mn = "MOVQR"

=============================================================================
